---- MODULE Spec2Model ----
(***************************************************************************)
(* The research orchestration engine of src/server.js: POST                *)
(* /api/research/run, performResearch and the two completion stages        *)
(* (discoverCasinosByState, researchCasinoOffers), over the three MongoDB  *)
(* collections (Casino, Offer, ResearchRun).                               *)
(*                                                                         *)
(* Strings are tuples of one-character strings, so that toLowerCase, trim, *)
(* includes and the RegExp test are computed on the characters.  An        *)
(* optional value (a JSON field that may be absent) is <<>> when absent    *)
(* and <<v>> when present.  Timestamps are not modelled: completedAt is    *)
(* either absent or set.                                                   *)
(***************************************************************************)
EXTENDS Integers, Sequences, FiniteSets, TLC

\* ------------------------------------------------------------------ bounds

\* Candidates (venues and offers together) the completion service returns in
\* total.
MaxItems == 3
\* Reference offers a venue has in the reconciliation specification.
MaxRefOffers == 2
\* Offers a research response lists in the reconciliation specification.
MaxDiscovered == 1

\* The identifiers of the ResearchRun documents: one run request is followed
\* from its acceptance to the end of its orchestration.
RunIds == {1}

\* ----------------------------------------------------------------- strings

None == <<>>
Some(v) == <<v>>
IsSome(o) == o # <<>>
Get(o) == o[1]

\* String.prototype.toLowerCase, on one character.
LowerChar(c) ==
  CASE c = "A" -> "a"
    [] c = "B" -> "b"
    [] c = "C" -> "c"
    [] c = "D" -> "d"
    [] c = "N" -> "n"
    [] c = "P" -> "p"
    [] c = "W" -> "w"
    [] OTHER -> c

\* String.prototype.toLowerCase.
ToLowerCase(s) == [i \in 1..Len(s) |-> LowerChar(s[i])]

RECURSIVE TrimStart(_)
TrimStart(s) ==
  IF s # <<>> /\ Head(s) = " " THEN TrimStart(Tail(s)) ELSE s

RECURSIVE TrimEnd(_)
TrimEnd(s) ==
  IF s # <<>> /\ s[Len(s)] = " " THEN TrimEnd(SubSeq(s, 1, Len(s) - 1)) ELSE s

\* String.prototype.trim.
Trim(s) == TrimEnd(TrimStart(s))

\* includes behind a test of its argument (t && s.includes(t)): the empty
\* string is contained in nothing.
IncludesNonEmpty(s, t) ==
  /\ t # <<>>
  /\ \E i \in 0..(Len(s) - Len(t)) : SubSeq(s, i + 1, i + Len(t)) = t

\* String.prototype.includes: t occurs in s at some offset.
Includes(s, t) ==
  \E i \in 0..(Len(s) - Len(t)) : SubSeq(s, i + 1, i + Len(t)) = t

\* A pattern without its group delimiters: the name is put into the pattern
\* unescaped, so "(" and ")" delimit a group, which matches what its content
\* matches.
Ungrouped(pattern) == SelectSeq(pattern, LAMBDA c : c \notin {"(", ")"})

\* new RegExp(`^${pattern}$`, 'i').test(s), for a pattern of letters, spaces
\* and balanced parentheses (the names of the model hold no other RegExp
\* metacharacter): every letter and space stands for itself in either case.
RegExpTest(pattern, s) ==
  LET p == Ungrouped(pattern)
  IN  /\ Len(p) = Len(s)
      /\ \A i \in 1..Len(s) : LowerChar(p[i]) = LowerChar(s[i])

\* x || 0 for an optional number.
OrZero(o) == IF IsSome(o) /\ Get(o) # 0 THEN Get(o) ELSE 0

\* Math.abs.
Abs(n) == IF n < 0 THEN 0 - n ELSE n

\* ---------------------------------------------------------- jurisdictions

\* The jurisdictions as a map sorted by key would enumerate them.
StatesSortedByKey ==
  << [abbrev |-> "MI", stateName |-> "Michigan"],
     [abbrev |-> "NJ", stateName |-> "New Jersey"],
     [abbrev |-> "PA", stateName |-> "Pennsylvania"],
     [abbrev |-> "WV", stateName |-> "West Virginia"] >>

\* const states = { NJ: ..., MI: ..., PA: ..., WV: ... }, in Object.entries order.
States ==
  << [abbrev |-> "NJ", stateName |-> "New Jersey"],
     [abbrev |-> "MI", stateName |-> "Michigan"],
     [abbrev |-> "PA", stateName |-> "Pennsylvania"],
     [abbrev |-> "WV", stateName |-> "West Virginia"] >>

\* Object.values(states).
StateNames == [i \in 1..Len(States) |-> States[i].stateName]

\* -------------------------------------------------------------- documents

\* A Casino document (casinoSchema): the fields the orchestrator reads or sets.
CasinoDoc(name, abbrev, stateName, discovered) ==
  [name |-> name, stateAbbreviation |-> abbrev, state |-> stateName,
   discovered |-> discovered]

\* An Offer document (offerSchema): the fields the orchestrator reads or sets.
OfferDoc(casinoName, abbrev, offerName, offerType, expectedBonus, source) ==
  [casinoName |-> casinoName, stateAbbreviation |-> abbrev,
   offerName |-> offerName, offerType |-> offerType,
   expectedBonus |-> expectedBonus, source |-> source]

\* The document create() would make were the status left to the schema's
\* default.
NewRunWithDefaultStatus ==
  [status |-> "pending", completedAt |-> FALSE,
   currentState |-> None, currentCasino |-> None,
   offersProcessed |-> 0, casinosProcessed |-> 0,
   progressLog |-> <<>>, missingCasinos |-> <<>>,
   offerComparisons |-> <<>>, summary |-> None]

\* A ResearchRun document as ResearchRun.create({ status: 'in-progress' })
\* makes it, with the schema's defaults.
NewRun ==
  [status |-> "in-progress", completedAt |-> FALSE,
   currentState |-> None, currentCasino |-> None,
   offersProcessed |-> 0, casinosProcessed |-> 0,
   progressLog |-> <<>>, missingCasinos |-> <<>>,
   offerComparisons |-> <<>>, summary |-> None]

\* The slot of a run identifier no document has been created for.
NoRun == [NewRun EXCEPT !.status = "none"]

\* ------------------------------------------------------ names in the model

NameAb == <<"A", "b">>
NameAbPadded == <<" ", "a", "b", " ">>
NameAbLower == <<"a", "b">>
NameCd == <<"C", "d">>
NameCParenD == <<"C", "(", "d", ")">>

OfferWb == <<"w", "b">>
OfferNWbP == <<"n", "W", "B", "p">>
OfferSb == <<"s", "b">>

TypeWelcome == <<"w">>
TypeWelcomeUpper == <<"W">>
TypeDeposit == <<"d">>
TypeDepositUpper == <<"D">>

\* The stores the reference import (POST /api/research/init) can leave behind:
\* venues with discovered = false and offers with source 'internal-api',
\* always with a name, a type ('unknown' at least) and a numeric bonus (a
\* venue's offers may since have been deleted through DELETE /api/offers/:id).
ReferenceData ==
  { [casinos |-> <<>>, offers |-> <<>>],
    [casinos |-> << CasinoDoc(NameAb, "NJ", "New Jersey", FALSE) >>,
     offers |-> << OfferDoc(NameAb, "NJ", Some(OfferWb), Some(TypeWelcome),
                            Some(100), "internal-api") >>],
    [casinos |-> << CasinoDoc(NameAbLower, "MI", "Michigan", FALSE) >>,
     offers |-> << >>] }

\* The candidates a discovery response can list: a name, or no name at all.
VenueCandidates ==
  { [name |-> Some(NameAb)], [name |-> Some(NameAbPadded)], [name |-> None] }

\* The candidates a research response can list.
OfferCandidates ==
  { [offerName |-> Some(OfferNWbP), offerType |-> Some(TypeDeposit),
     expectedBonus |-> Some(500)],
    [offerName |-> Some(OfferSb), offerType |-> Some(TypeWelcomeUpper),
     expectedBonus |-> Some(140)],
    [offerName |-> Some(OfferSb), offerType |-> Some(TypeWelcome),
     expectedBonus |-> Some(200)] }

\* ------------------------------------------------------------------- state

VARIABLES
  casinos,     \* the Casino collection, in insertion order
  offers,      \* the Offer collection, in insertion order
  runs,        \* the ResearchRun collection, by run identifier
  orch,        \* each performResearch invocation: its position and locals
  apiCalls,    \* per run, the completion-service calls it has issued, in order
  requests,    \* POST /api/research/run requests clients have yet to send
  itemsLeft,   \* candidates the completion service may still return
  service,     \* how the completion service answers: freely, or by a script
  answered,    \* the runs whose POST /api/research/run has been answered
  polled,      \* the runs whose record a GET has returned to a poller
  importer,    \* the POST /api/research/init handler: its position and locals
  dash         \* the dashboard's handleRunResearch: its position and state

vars ==
  <<casinos, offers, runs, orch, apiCalls, requests, itemsLeft, service,
    answered, polled, importer, dash>>

\* The init handler when no import is in progress: `data` is what the
\* upstream API returns, `done` the imports answered with success, and
\* `afterFirst` the store as the first of them left it.
NoImport ==
  [pc |-> "idle", data |-> <<>>, x |-> 1, casinos |-> <<>>, c |-> 1,
   done |-> 0, afterFirst |-> <<>>]

\* The dashboard before "Run Full Research" is clicked: useState(false) for
\* loading, no run started.
NoDashboard ==
  [pc |-> "idle", loading |-> FALSE, runId |-> <<>>, completed |-> FALSE,
   attempts |-> 0, seen |-> "none"]

\* A value of parsed.casinos / parsed.offers: a list, or some other truthy
\* JSON value (a number, an object).
List(items) == [isList |-> TRUE, items |-> items]
NotAList == [isList |-> FALSE, items |-> <<>>]

\* No response in flight.
NoResponse == [kind |-> "none", value |-> List(<<>>)]

\* A completion service that may answer any call in any way.
Unscripted == [scripted |-> FALSE, discover |-> <<>>, research |-> <<>>]

\* The answer of the completion service to one call: any of `free` when the
\* service is unscripted, the script's answer to the prompt otherwise (the
\* same prompt gets the same answer).
Replies(free, scriptedAnswer) ==
  IF service.scripted THEN { scriptedAnswer } ELSE free

\* The candidates an answer uses up of those the unscripted service may
\* still return.
Used(resp) == IF service.scripted THEN 0 ELSE Len(resp.value.items)

\* performResearch's locals before its first statement (and what is left in
\* scope once control has left the try block).
InitLocals ==
  [pc |-> "idle", error |-> "", response |-> NoResponse,
   i |-> 1, discoveredCasinos |-> List(<<>>), k |-> 1, missing |-> <<>>,
   missingCasinos |-> <<>>, offerComparisons |-> <<>>,
   totalNewOffers |-> 0, totalCasinosProcessed |-> 0,
   totalOffersProcessed |-> 0,
   allCasinos |-> <<>>, j |-> 1,
   discoveredOffers |-> List(<<>>), currentOffers |-> <<>>,
   newOffers |-> <<>>, n |-> 1]

Init ==
  /\ \E ref \in ReferenceData :
       /\ casinos = ref.casinos
       /\ offers = ref.offers
  /\ runs = [r \in RunIds |-> NoRun]
  /\ orch = [r \in RunIds |-> InitLocals]
  /\ apiCalls = [r \in RunIds |-> <<>>]
  /\ requests = Cardinality(RunIds)
  /\ itemsLeft = MaxItems
  /\ service = Unscripted
  /\ answered = {}
  /\ polled = {}
  /\ importer = NoImport
  /\ dash = NoDashboard

\* ------------------------------------------------------------- start_run

\* The handler with `await performResearch(run._id)`: it has not answered
\* when performResearch reaches its first await.
StartRunBlocking(r) ==
  /\ requests > 0
  /\ runs[r].status = "none"
  /\ \A q \in RunIds : q < r => runs[q].status # "none"
  /\ requests' = requests - 1
  /\ \/ /\ runs' = [runs EXCEPT ![r] = NewRun]
        /\ orch' = [orch EXCEPT ![r].pc = "findRun"]
     \/ UNCHANGED <<runs, orch>>
  /\ UNCHANGED <<casinos, offers, apiCalls, itemsLeft, service, answered, polled,
               importer, dash>>

\* The handler refusing the request while a run is in-progress.
StartRunExclusive(r) ==
  /\ requests > 0
  /\ runs[r].status = "none"
  /\ \A q \in RunIds : q < r => runs[q].status # "none"
  /\ \A q \in DOMAIN runs : runs[q].status # "in-progress"
  /\ requests' = requests - 1
  /\ \/ /\ runs' = [runs EXCEPT ![r] = NewRun]
        /\ orch' = [orch EXCEPT ![r].pc = "findRun"]
        /\ answered' = answered \cup {r}
     \/ UNCHANGED <<runs, orch, answered>>
  /\ UNCHANGED <<casinos, offers, apiCalls, itemsLeft, service, polled,
               importer, dash>>

\* POST /api/research/run: create the document, start performResearch
\* detached, answer.  A failed create rejects the handler: no run exists.
StartRun(r) ==
  /\ requests > 0
  /\ runs[r].status = "none"
  /\ \A q \in RunIds : q < r => runs[q].status # "none"
  /\ requests' = requests - 1
  /\ \/ /\ runs' = [runs EXCEPT ![r] = NewRun]
        /\ orch' = [orch EXCEPT ![r].pc = "findRun"]
        /\ answered' = answered \cup {r}
     \/ UNCHANGED <<runs, orch, answered>>
  /\ UNCHANGED <<casinos, offers, apiCalls, itemsLeft, service, polled,
               importer, dash>>

\* ------------------------------------------------------ shared step parts

Msg(m, d) == [msg |-> m, detail |-> d]

\* logProgress writing the entry with $set instead of $push.
PushLogReplacing(r, entry) ==
  runs' = [runs EXCEPT ![r].progressLog = << entry >>]

\* logProgress writing with updateMany({ status: 'in-progress' }, { $push }):
\* the entry goes onto the log of every run in progress.
PushLogToInProgress(r, entry) ==
  runs' = [q \in DOMAIN runs |->
             IF q = r \/ runs[q].status = "in-progress"
             THEN [runs[q] EXCEPT !.progressLog = Append(@, entry)]
             ELSE runs[q]]

\* logProgress's store write: $push of one entry onto the run's progressLog.
PushLog(r, entry) ==
  runs' = [runs EXCEPT ![r].progressLog = Append(@, entry)]

\* The locals once an error has been thrown inside the try block: control is
\* in the catch clause, where only the error is in scope.  The error stays
\* recorded when performResearch has settled ("done", "rejected").
Caught(message) == [InitLocals EXCEPT !.pc = "catchLog", !.error = message]

\* A store operation of run r rejects: the error is thrown at the await.
StoreFails(r) == orch' = [orch EXCEPT ![r] = Caught("StoreError")]

\* The jurisdiction the loop of run r is at.
CurState(r) == States[orch[r].i]

\* A step of run r that is one `await logProgress(entry)`: on success the
\* locals become `next`.
LogStep(r, at, entry, next) ==
  /\ orch[r].pc = at
  /\ \/ /\ PushLog(r, entry)
        /\ orch' = [orch EXCEPT ![r] = next]
     \/ /\ StoreFails(r)
        /\ UNCHANGED runs
  /\ UNCHANGED <<casinos, offers, apiCalls, requests, itemsLeft,
               service, answered, polled,
               importer, dash>>

\* ------------------------------------------------------- completion stages

\* What the completion call of a stage can come back with: the call rejects
\* (callClaudeAPI rethrows), the text holds no {...}, the {...} does not
\* parse, the object lacks the list field or has a falsy one (null, 0, ""),
\* which `|| []` replaces, or the field has a truthy value.
Responses(values) ==
  { [kind |-> kd, value |-> List(<<>>)] :
      kd \in {"error", "noJson", "badJson", "noField"} }
  \cup { [kind |-> "json", value |-> v] : v \in values }

\* All lists over S of length at most n.
RECURSIVE ListsUpTo(_, _)
ListsUpTo(S, n) ==
  IF n = 0 THEN { <<>> }
  ELSE LET shorter == ListsUpTo(S, n - 1)
       IN  shorter \cup { Append(l, x) : l \in shorter, x \in S }

\* The tail of discoverCasinosByState / researchCasinoOffers after the
\* awaited call: match /\{[\s\S]*\}/, JSON.parse, `parsed.field || []`, and
\* [] from the catch clause.
StageResult(resp) ==
  IF resp.kind = "json" THEN resp.value ELSE List(<<>>)

\* ------------------------------------------------ performResearch: start

\* const run = await ResearchRun.findById(runId)
FindRun(r) ==
  /\ orch[r].pc = "findRun"
  /\ \/ orch' = [orch EXCEPT ![r].pc = "logStart"]
     \/ StoreFails(r)
  /\ UNCHANGED <<casinos, offers, runs, apiCalls, requests, itemsLeft,
               service, answered, polled,
               importer, dash>>

\* await logProgress('Research started for all states'), then the first
\* iteration of the loop over Object.entries(states).
LogStarted(r) ==
  LogStep(r, "logStart", Msg("started", ""),
          [orch[r] EXCEPT !.pc = "setState"])

\* The update at the head of the loop with currentState alone: the venue
\* pointer of the jurisdiction before stays.
SetCurrentStateKeepingCasino(r) ==
  /\ orch[r].pc = "setState"
  /\ \/ /\ runs' = [runs EXCEPT ![r].currentState = Some(CurState(r).stateName)]
        /\ orch' = [orch EXCEPT ![r].pc = "logState"]
     \/ /\ StoreFails(r)
        /\ UNCHANGED runs
  /\ UNCHANGED <<casinos, offers, apiCalls, requests, itemsLeft,
               service, answered, polled,
               importer, dash>>

\* The update at the head of the loop with currentCasino: null alone.
SetCurrentStateCasinoOnly(r) ==
  /\ orch[r].pc = "setState"
  /\ \/ /\ runs' = [runs EXCEPT ![r].currentCasino = None]
        /\ orch' = [orch EXCEPT ![r].pc = "logState"]
     \/ /\ StoreFails(r)
        /\ UNCHANGED runs
  /\ UNCHANGED <<casinos, offers, apiCalls, requests, itemsLeft,
               service, answered, polled,
               importer, dash>>

\* await ResearchRun.findByIdAndUpdate(runId, { currentState, currentCasino: null })
SetCurrentState(r) ==
  /\ orch[r].pc = "setState"
  /\ \/ /\ runs' = [runs EXCEPT ![r].currentState = Some(CurState(r).stateName),
                                ![r].currentCasino = None]
        /\ orch' = [orch EXCEPT ![r].pc = "logState"]
     \/ /\ StoreFails(r)
        /\ UNCHANGED runs
  /\ UNCHANGED <<casinos, offers, apiCalls, requests, itemsLeft,
               service, answered, polled,
               importer, dash>>

\* await logProgress(`Researching ${stateName} (${abbrev})...`)
LogState(r) ==
  LogStep(r, "logState", Msg("researching", CurState(r).stateName),
          [orch[r] EXCEPT !.pc = "logDiscovering"])

\* await logProgress(`Discovering casinos in ${stateName}...`)
LogDiscovering(r) ==
  LogStep(r, "logDiscovering", Msg("discovering", CurState(r).stateName),
          [orch[r] EXCEPT !.pc = "discover"])

\* ----------------------------------------------------- discovery stage

\* The completion client answering from a cache: a prompt some run has
\* already sent is not sent again.
DiscoverCallCached(r) ==
  /\ orch[r].pc = "discover"
  /\ \E resp \in Replies(Responses({NotAList}
                     \cup { List(l) : l \in ListsUpTo(VenueCandidates, itemsLeft) }),
                   service.discover[CurState(r).stateName]) :
       /\ orch' = [orch EXCEPT ![r].pc = "discoverRet", ![r].response = resp]
       /\ itemsLeft' = itemsLeft - Used(resp)
  /\ LET call == [stage |-> "discover", state |-> CurState(r).stateName,
                  casino |-> None]
     IN  apiCalls' =
           IF \E q \in DOMAIN apiCalls :
                 \E x \in 1..Len(apiCalls[q]) : apiCalls[q][x] = call
           THEN apiCalls
           ELSE [apiCalls EXCEPT ![r] = Append(@, call)]
  /\ UNCHANGED <<casinos, offers, runs, requests, service, answered, polled,
               importer, dash>>

\* discoverCasinosByState(stateName) up to its await: one call to the
\* completion service, whose response is then in flight.
DiscoverCall(r) ==
  /\ orch[r].pc = "discover"
  /\ \E resp \in Replies(Responses({NotAList}
                     \cup { List(l) : l \in ListsUpTo(VenueCandidates, itemsLeft) }),
                   service.discover[CurState(r).stateName]) :
       /\ orch' = [orch EXCEPT ![r].pc = "discoverRet", ![r].response = resp]
       /\ itemsLeft' = itemsLeft - Used(resp)
  /\ apiCalls' = [apiCalls EXCEPT ![r] =
                    Append(@, [stage |-> "discover",
                               state |-> CurState(r).stateName,
                               casino |-> None])]
  /\ UNCHANGED <<casinos, offers, runs, requests, service, answered, polled,
               importer, dash>>

\* discoverCasinosByState without its try/catch: a rejected call or a
\* JSON.parse error reaches performResearch.
AfterDiscoverUncaught(l) ==
  IF l.response.kind \in {"error", "badJson"} THEN Caught("UpstreamError")
  ELSE [l EXCEPT !.pc = "logFound",
                 !.discoveredCasinos = StageResult(l.response),
                 !.response = NoResponse]

\* The locals after discoverCasinosByState has returned.
AfterDiscover(l) ==
  [l EXCEPT !.pc = "logFound",
            !.discoveredCasinos = StageResult(l.response),
            !.response = NoResponse]

\* discoverCasinosByState from the response on: it returns a list, whatever
\* came back.
DiscoverReturn(r) ==
  /\ orch[r].pc = "discoverRet"
  /\ orch' = [orch EXCEPT ![r] = AfterDiscover(orch[r])]
  /\ UNCHANGED <<casinos, offers, runs, apiCalls, requests, itemsLeft,
               service, answered, polled,
               importer, dash>>

\* value.length
LengthOf(v) == IF v.isList THEN Some(Len(v.items)) ELSE None

\* await logProgress(`Found ${discoveredCasinos.length} casinos in official records`)
LogFound(r) ==
  LogStep(r, "logFound", Msg("found", LengthOf(orch[r].discoveredCasinos)),
          [orch[r] EXCEPT !.pc = "findExisting"])

\* ---------------------------------------------------- venue reconciliation

\* The head of `for (const casino of discoveredCasinos)` at index l.k, up to
\* the await of Casino.findOne: the loop ends, or casino.name.toLowerCase()
\* throws on a candidate without a name, or the lookup is issued.
EnterCandidate(l) ==
  IF ~l.discoveredCasinos.isList THEN Caught("TypeError")
  ELSE IF l.k > Len(l.discoveredCasinos.items) THEN [l EXCEPT !.pc = "logMissing"]
  ELSE IF ~IsSome(l.discoveredCasinos.items[l.k].name) THEN Caught("TypeError")
  ELSE [l EXCEPT !.pc = "findOne"]

\* const existingCasinos = await Casino.find({ stateAbbreviation: abbrev,
\* discovered: false }); existingNames is computed and never read.
FindExisting(r) ==
  /\ orch[r].pc = "findExisting"
  /\ \/ orch' = [orch EXCEPT ![r] = EnterCandidate([orch[r] EXCEPT !.k = 1])]
     \/ StoreFails(r)
  /\ UNCHANGED <<casinos, offers, runs, apiCalls, requests, itemsLeft,
               service, answered, polled,
               importer, dash>>

\* The filter of Casino.findOne: { $or: [ { name: /^name$/i, stateAbbreviation },
\* { name: normalizedName, stateAbbreviation } ] }, on one stored document.
CasinoMatches(doc, name, abbrev) ==
  /\ doc.stateAbbreviation = abbrev
  /\ \/ RegExpTest(name, doc.name)
     \/ doc.name = Trim(ToLowerCase(name))

\* The name of the candidate the loop of run r is at.
CurCandidateName(r) == Get(orch[r].discoveredCasinos.items[orch[r].k].name)

\* const existingCasino = await Casino.findOne(...); if none, missing.push(name)
\* and Casino.create is issued.
FindOneCasino(r) ==
  /\ orch[r].pc = "findOne"
  /\ \/ IF \E idx \in 1..Len(casinos) :
             CasinoMatches(casinos[idx], CurCandidateName(r), CurState(r).abbrev)
        THEN orch' = [orch EXCEPT ![r] =
                        EnterCandidate([orch[r] EXCEPT !.k = @ + 1])]
        ELSE orch' = [orch EXCEPT ![r].pc = "createCasino",
                                  ![r].missing = Append(@, CurCandidateName(r))]
     \/ StoreFails(r)
  /\ UNCHANGED <<casinos, offers, runs, apiCalls, requests, itemsLeft,
               service, answered, polled,
               importer, dash>>

\* The venue written with findOneAndUpdate({ stateAbbreviation }, ...,
\* { upsert: true }): it replaces the first stored venue of the jurisdiction.
CreateCasinoUpserting(r) ==
  /\ orch[r].pc = "createCasino"
  /\ \/ /\ LET doc == CasinoDoc(CurCandidateName(r), CurState(r).abbrev,
                                CurState(r).stateName, TRUE)
               same == { x \in 1..Len(casinos) :
                           casinos[x].stateAbbreviation = CurState(r).abbrev }
           IN  casinos' =
                 IF same = {} THEN Append(casinos, doc)
                 ELSE [casinos EXCEPT
                         ![CHOOSE x \in same : \A y \in same : x <= y] = doc]
        /\ orch' = [orch EXCEPT ![r].pc = "logNewCasino"]
     \/ /\ StoreFails(r)
        /\ UNCHANGED casinos
  /\ UNCHANGED <<offers, runs, apiCalls, requests, itemsLeft, service, answered, polled,
               importer, dash>>

\* await Casino.create({ ...casino, state, stateAbbreviation, discovered: true })
CreateCasino(r) ==
  /\ orch[r].pc = "createCasino"
  /\ \/ /\ casinos' = Append(casinos,
                             CasinoDoc(CurCandidateName(r), CurState(r).abbrev,
                                       CurState(r).stateName, TRUE))
        /\ orch' = [orch EXCEPT ![r].pc = "logNewCasino"]
     \/ /\ StoreFails(r)
        /\ UNCHANGED casinos
  /\ UNCHANGED <<offers, runs, apiCalls, requests, itemsLeft,
               service, answered, polled,
               importer, dash>>

\* await logProgress(`Discovered new casino: ${casino.name}`), then the next
\* candidate.
LogNewCasino(r) ==
  LogStep(r, "logNewCasino", Msg("newCasino", CurCandidateName(r)),
          EnterCandidate([orch[r] EXCEPT !.k = @ + 1]))

\* missingCasinos.push(...) without the test of missing.length.
LogMissingAlways(r) ==
  LogStep(r, "logMissing", Msg("missing", Len(orch[r].missing)),
          [orch[r] EXCEPT
             !.pc = "findAll",
             !.missingCasinos =
                Append(@, [state |-> CurState(r).stateName,
                           casinos |-> orch[r].missing])])

\* if (missing.length > 0) { missingCasinos.push(...); log } else { log }
LogMissing(r) ==
  IF orch[r].missing # <<>>
  THEN LogStep(r, "logMissing", Msg("missing", Len(orch[r].missing)),
               [orch[r] EXCEPT
                  !.pc = "findAll",
                  !.missingCasinos =
                     Append(@, [state |-> CurState(r).stateName,
                                casinos |-> orch[r].missing])])
  ELSE LogStep(r, "logMissing", Msg("noMissing", CurState(r).stateName),
               [orch[r] EXCEPT !.pc = "findAll"])

\* ------------------------------------------------------- offer research

\* The head of `for (const casino of allCasinos)` at index l.j, up to the
\* await of the run update: totalCasinosProcessed++ when there is a venue.
EnterVenue(l) ==
  IF l.j > Len(l.allCasinos) THEN [l EXCEPT !.pc = "logCompleted"]
  ELSE [l EXCEPT !.pc = "setCasino",
                 !.totalCasinosProcessed = @ + 1]

\* Casino.find with discovered: false in its filter, as the lookup of the
\* existing venues has it: only the reference venues are loaded.
FindAllCasinosReferenceOnly(r) ==
  /\ orch[r].pc = "findAll"
  /\ \/ orch' = [orch EXCEPT
                   ![r].pc = "logResearching",
                   ![r].allCasinos =
                      SelectSeq(casinos,
                                LAMBDA c : /\ c.stateAbbreviation = CurState(r).abbrev
                                           /\ ~c.discovered)]
     \/ StoreFails(r)
  /\ UNCHANGED <<casinos, offers, runs, apiCalls, requests, itemsLeft,
               service, answered, polled,
               importer, dash>>

\* const allCasinos = await Casino.find({ stateAbbreviation: abbrev })
FindAllCasinos(r) ==
  /\ orch[r].pc = "findAll"
  /\ \/ orch' = [orch EXCEPT
                   ![r].pc = "logResearching",
                   ![r].allCasinos =
                      SelectSeq(casinos,
                                LAMBDA c : c.stateAbbreviation = CurState(r).abbrev)]
     \/ StoreFails(r)
  /\ UNCHANGED <<casinos, offers, runs, apiCalls, requests, itemsLeft,
               service, answered, polled,
               importer, dash>>

\* await logProgress(`Researching offers for ${allCasinos.length} casinos ...`)
LogResearching(r) ==
  LogStep(r, "logResearching", Msg("researchingOffers", Len(orch[r].allCasinos)),
          EnterVenue([orch[r] EXCEPT !.j = 1]))

\* The venue the inner loop of run r is at.
CurCasino(r) == orch[r].allCasinos[orch[r].j]

\* await ResearchRun.findByIdAndUpdate(runId, { currentCasino, casinosProcessed })
SetCurrentCasino(r) ==
  /\ orch[r].pc = "setCasino"
  /\ \/ /\ runs' = [runs EXCEPT
                      ![r].currentCasino = Some(CurCasino(r).name),
                      ![r].casinosProcessed = orch[r].totalCasinosProcessed]
        /\ orch' = [orch EXCEPT ![r].pc = "logProcessing"]
     \/ /\ StoreFails(r)
        /\ UNCHANGED runs
  /\ UNCHANGED <<casinos, offers, apiCalls, requests, itemsLeft,
               service, answered, polled,
               importer, dash>>

\* await logProgress(`Processing: ${casino.name}...`)
LogProcessing(r) ==
  LogStep(r, "logProcessing", Msg("processing", CurCasino(r).name),
          [orch[r] EXCEPT !.pc = "research"])

\* The venue loop as Promise.all(allCasinos.map(...)): at the first venue the
\* research calls of all the venues of the jurisdiction are issued together.
ResearchCallAllAtOnce(r) ==
  /\ orch[r].pc = "research"
  /\ \E resp \in Replies(Responses({NotAList}
                     \cup { List(l) : l \in ListsUpTo(OfferCandidates, itemsLeft) }),
                   service.research[CurCasino(r).name]) :
       /\ orch' = [orch EXCEPT ![r].pc = "researchRet", ![r].response = resp]
       /\ itemsLeft' = itemsLeft - Used(resp)
  /\ apiCalls' = [apiCalls EXCEPT ![r] =
                    @ \o [x \in 1..(Len(orch[r].allCasinos) - orch[r].j + 1) |->
                            [stage |-> "research",
                             state |-> CurState(r).stateName,
                             casino |-> Some(orch[r].allCasinos[orch[r].j + x - 1].name)]]]
  /\ UNCHANGED <<casinos, offers, runs, requests, service, answered, polled,
               importer, dash>>

\* researchCasinoOffers(casino.name, stateName) up to its await.
ResearchCall(r) ==
  /\ orch[r].pc = "research"
  /\ \E resp \in Replies(Responses({NotAList}
                     \cup { List(l) : l \in ListsUpTo(OfferCandidates, itemsLeft) }),
                   service.research[CurCasino(r).name]) :
       /\ orch' = [orch EXCEPT ![r].pc = "researchRet", ![r].response = resp]
       /\ itemsLeft' = itemsLeft - Used(resp)
  /\ apiCalls' = [apiCalls EXCEPT ![r] =
                    Append(@, [stage |-> "research",
                               state |-> CurState(r).stateName,
                               casino |-> Some(CurCasino(r).name)])]
  /\ UNCHANGED <<casinos, offers, runs, requests, service, answered, polled,
               importer, dash>>

\* The locals after researchCasinoOffers has returned.
AfterResearch(l) ==
  [l EXCEPT !.pc = "logOffers",
            !.discoveredOffers = StageResult(l.response),
            !.response = NoResponse]

\* researchCasinoOffers from the response on.
ResearchReturn(r) ==
  /\ orch[r].pc = "researchRet"
  /\ orch' = [orch EXCEPT ![r] = AfterResearch(orch[r])]
  /\ UNCHANGED <<casinos, offers, runs, apiCalls, requests, itemsLeft,
               service, answered, polled,
               importer, dash>>

\* await logProgress(`Found ${discoveredOffers.length} offers`)
LogOffers(r) ==
  LogStep(r, "logOffers", Msg("foundOffers", LengthOf(orch[r].discoveredOffers)),
          [orch[r] EXCEPT !.pc = "findOffers"])

\* ---------------------------------------------------- offer reconciliation

\* String(undefined), what includes() searches for when given undefined.
Undefined == <<"u", "n", "d", "e", "f", "i", "n", "e", "d">>

\* a?.toLowerCase().includes(b?.toLowerCase()): undefined (falsy) when a is
\* absent; an absent b is searched for as the text "undefined".
IncludesOpt(a, b) ==
  /\ IsSome(a)
  /\ Includes(ToLowerCase(Get(a)),
              IF IsSome(b) THEN ToLowerCase(Get(b)) ELSE Undefined)

\* x?.toLowerCase()
LowerOpt(o) == IF IsSome(o) THEN Some(ToLowerCase(Get(o))) ELSE None

\* nameMatch testing one direction only: the stored name contains the
\* discovered one.
NameMatchOneWay(cOffer, dOffer) ==
  IncludesOpt(cOffer.offerName, dOffer.offerName)

\* nameMatch of the filter callback.
NameMatch(cOffer, dOffer) ==
  \/ IncludesOpt(cOffer.offerName, dOffer.offerName)
  \/ IncludesOpt(dOffer.offerName, cOffer.offerName)

\* typeMatch of the filter callback.
TypeMatch(cOffer, dOffer) ==
  LowerOpt(cOffer.offerType) = LowerOpt(dOffer.offerType)

\* amountMatch without Math.abs.
AmountMatchSigned(cOffer, dOffer) ==
  OrZero(cOffer.expectedBonus) - OrZero(dOffer.expectedBonus) < 50

\* amountMatch of the filter callback.
AmountMatch(cOffer, dOffer) ==
  Abs(OrZero(cOffer.expectedBonus) - OrZero(dOffer.expectedBonus)) < 50

\* currentOffers.some(cOffer => nameMatch || (typeMatch && amountMatch))
Exists(currentOffers, dOffer) ==
  \E idx \in 1..Len(currentOffers) :
     \/ NameMatch(currentOffers[idx], dOffer)
     \/ /\ TypeMatch(currentOffers[idx], dOffer)
        /\ AmountMatch(currentOffers[idx], dOffer)

\* discoveredOffers.filter(dOffer => !exists)
NewOffers(currentOffers, discoveredOffers) ==
  SelectSeq(discoveredOffers, LAMBDA d : ~Exists(currentOffers, d))

\* o => ({ name, type, bonus }) of the comparison entry.
Brief(o) ==
  [name |-> o.offerName, type |-> o.offerType, bonus |-> o.expectedBonus]

BriefAll(os) == [x \in 1..Len(os) |-> Brief(os[x])]

\* The same with totalNewOffers counting every discovered offer.
AfterFindOffersCountingAll(l, currentOffers) ==
  IF ~l.discoveredOffers.isList THEN Caught("TypeError")
  ELSE LET new == NewOffers(currentOffers, l.discoveredOffers.items)
       IN  IF new # <<>>
           THEN [l EXCEPT !.pc = "logNewOffers",
                          !.currentOffers = currentOffers,
                          !.newOffers = new,
                          !.totalNewOffers = @ + Len(l.discoveredOffers.items),
                          !.totalOffersProcessed = @ + Len(new)]
           ELSE [l EXCEPT !.pc = "setOffersProcessed"]

\* The same with the comparison entry pushed outside the test of
\* newOffers.length: a venue without a new offer gets an entry too.
AfterFindOffersAlwaysComparing(l, currentOffers) ==
  IF ~l.discoveredOffers.isList THEN Caught("TypeError")
  ELSE LET new == NewOffers(currentOffers, l.discoveredOffers.items)
       IN  IF new # <<>>
           THEN [l EXCEPT !.pc = "logNewOffers",
                          !.currentOffers = currentOffers,
                          !.newOffers = new,
                          !.totalNewOffers = @ + Len(new),
                          !.totalOffersProcessed = @ + Len(new)]
           ELSE [l EXCEPT
                   !.pc = "setOffersProcessed",
                   !.offerComparisons =
                      Append(@, [casinoName |-> l.allCasinos[l.j].name,
                                 state |-> States[l.i].stateName,
                                 currentOffers |-> BriefAll(currentOffers),
                                 discoveredOffers |-> BriefAll(l.discoveredOffers.items),
                                 newOffers |-> <<>>])]

\* From the result of Offer.find to the next await: the filter, and when it
\* leaves offers, the two totals.
AfterFindOffers(l, currentOffers) ==
  IF ~l.discoveredOffers.isList THEN Caught("TypeError")
  ELSE LET new == NewOffers(currentOffers, l.discoveredOffers.items)
       IN  IF new # <<>>
           THEN [l EXCEPT !.pc = "logNewOffers",
                          !.currentOffers = currentOffers,
                          !.newOffers = new,
                          !.totalNewOffers = @ + Len(new),
                          !.totalOffersProcessed = @ + Len(new)]
           ELSE [l EXCEPT !.pc = "setOffersProcessed"]

\* Offer.find without the source in its filter: every stored offer of the
\* venue counts as current.
FindOffersAnySource(r) ==
  /\ orch[r].pc = "findOffers"
  /\ \/ orch' = [orch EXCEPT ![r] =
                   AfterFindOffers(orch[r],
                     SelectSeq(offers,
                       LAMBDA o : /\ o.casinoName = CurCasino(r).name
                                  /\ o.stateAbbreviation = CurState(r).abbrev))]
     \/ StoreFails(r)
  /\ UNCHANGED <<casinos, offers, runs, apiCalls, requests, itemsLeft,
               service, answered, polled,
               importer, dash>>

\* Offer.find without casinoName in its filter: the reference offers of
\* every venue of the jurisdiction count as current.
FindOffersAnyVenue(r) ==
  /\ orch[r].pc = "findOffers"
  /\ \/ orch' = [orch EXCEPT ![r] =
                   AfterFindOffers(orch[r],
                     SelectSeq(offers,
                       LAMBDA o : /\ o.stateAbbreviation = CurState(r).abbrev
                                  /\ o.source = "internal-api"))]
     \/ StoreFails(r)
  /\ UNCHANGED <<casinos, offers, runs, apiCalls, requests, itemsLeft,
               service, answered, polled,
               importer, dash>>

\* const currentOffers = await Offer.find({ casinoName, stateAbbreviation,
\* source: 'internal-api' })
FindOffers(r) ==
  /\ orch[r].pc = "findOffers"
  /\ \/ orch' = [orch EXCEPT ![r] =
                   AfterFindOffers(orch[r],
                     SelectSeq(offers,
                       LAMBDA o : /\ o.casinoName = CurCasino(r).name
                                  /\ o.stateAbbreviation = CurState(r).abbrev
                                  /\ o.source = "internal-api"))]
     \/ StoreFails(r)
  /\ UNCHANGED <<casinos, offers, runs, apiCalls, requests, itemsLeft,
               service, answered, polled,
               importer, dash>>

\* await logProgress(`Found ${newOffers.length} new offers for ${casino.name}`)
LogNewOffers(r) ==
  LogStep(r, "logNewOffers", Msg("newOffers", Len(orch[r].newOffers)),
          [orch[r] EXCEPT !.pc = "createOffer", !.n = 1])

\* After the last Offer.create of a venue: offerComparisons.push(...).
AfterCreateOffer(l, casino, stateName) ==
  IF l.n < Len(l.newOffers) THEN [l EXCEPT !.n = @ + 1]
  ELSE [l EXCEPT
          !.pc = "setOffersProcessed",
          !.offerComparisons =
             Append(@, [casinoName |-> casino.name,
                        state |-> stateName,
                        currentOffers |-> BriefAll(l.currentOffers),
                        discoveredOffers |-> BriefAll(l.discoveredOffers.items),
                        newOffers |-> BriefAll(l.newOffers)])]

\* await Offer.create({ casinoName, ..., source: 'ai-research' }) for the
\* n-th new offer.
CreateOffer(r) ==
  /\ orch[r].pc = "createOffer"
  /\ \/ /\ offers' =
             Append(offers,
                    LET o == orch[r].newOffers[orch[r].n]
                    IN  OfferDoc(CurCasino(r).name, CurState(r).abbrev,
                                 o.offerName, o.offerType,
                                 Some(OrZero(o.expectedBonus)), "ai-research"))
        /\ orch' = [orch EXCEPT ![r] =
                      AfterCreateOffer(orch[r], CurCasino(r),
                                       CurState(r).stateName)]
     \/ /\ StoreFails(r)
        /\ UNCHANGED offers
  /\ UNCHANGED <<casinos, runs, apiCalls, requests, itemsLeft,
               service, answered, polled,
               importer, dash>>

\* The counter written with $inc: { offersProcessed: totalOffersProcessed }:
\* the running total is added at every venue.
SetOffersProcessedIncrementing(r) ==
  /\ orch[r].pc = "setOffersProcessed"
  /\ \/ /\ runs' = [runs EXCEPT
                      ![r].offersProcessed = @ + orch[r].totalOffersProcessed]
        /\ orch' = [orch EXCEPT ![r] =
                      EnterVenue([orch[r] EXCEPT
                                    !.j = @ + 1,
                                    !.discoveredOffers = List(<<>>),
                                    !.currentOffers = <<>>,
                                    !.newOffers = <<>>,
                                    !.n = 1])]
     \/ /\ StoreFails(r)
        /\ UNCHANGED runs
  /\ UNCHANGED <<casinos, offers, apiCalls, requests, itemsLeft,
               service, answered, polled,
               importer, dash>>

\* await ResearchRun.findByIdAndUpdate(runId, { offersProcessed }), then the
\* next venue; the venue's block-scoped constants go out of scope.
SetOffersProcessed(r) ==
  /\ orch[r].pc = "setOffersProcessed"
  /\ \/ /\ runs' = [runs EXCEPT
                      ![r].offersProcessed = orch[r].totalOffersProcessed]
        /\ orch' = [orch EXCEPT ![r] =
                      EnterVenue([orch[r] EXCEPT
                                    !.j = @ + 1,
                                    !.discoveredOffers = List(<<>>),
                                    !.currentOffers = <<>>,
                                    !.newOffers = <<>>,
                                    !.n = 1])]
     \/ /\ StoreFails(r)
        /\ UNCHANGED runs
  /\ UNCHANGED <<casinos, offers, apiCalls, requests, itemsLeft,
               service, answered, polled,
               importer, dash>>

\* ------------------------------------------------------------- wrapping up

\* await logProgress(`Completed ${stateName} - Processed ... casinos`), then the
\* next jurisdiction, or the end of the loop.
LogCompleted(r) ==
  LogStep(r, "logCompleted", Msg("completedState", CurState(r).stateName),
          [orch[r] EXCEPT
             !.pc = IF orch[r].i < Len(States) THEN "setState" ELSE "logDone",
             !.i = @ + 1,
             !.discoveredCasinos = List(<<>>), !.k = 1, !.missing = <<>>,
             !.allCasinos = <<>>, !.j = 1])

\* missingCasinos.reduce((sum, s) => sum + s.casinos.length, 0)
RECURSIVE SumMissing(_)
SumMissing(missingCasinos) ==
  IF missingCasinos = <<>> THEN 0
  ELSE SumMissing(SubSeq(missingCasinos, 1, Len(missingCasinos) - 1))
       + Len(missingCasinos[Len(missingCasinos)].casinos)

\* await logProgress('Research completed successfully')
LogDone(r) ==
  LogStep(r, "logDone", Msg("completed", ""),
          [orch[r] EXCEPT !.pc = "logTotalMissing"])

\* await logProgress(`Total missing casinos: ${...}`)
LogTotalMissing(r) ==
  LogStep(r, "logTotalMissing",
          Msg("totalMissing", SumMissing(orch[r].missingCasinos)),
          [orch[r] EXCEPT !.pc = "logTotalNew"])

\* await logProgress(`Total new offers: ${totalNewOffers}`)
LogTotalNew(r) ==
  LogStep(r, "logTotalNew", Msg("totalNew", orch[r].totalNewOffers),
          [orch[r] EXCEPT !.pc = "finalize"])

\* The summary object of the final update.
Summary(l) ==
  [totalMissingCasinos |-> SumMissing(l.missingCasinos),
   totalNewOffers |-> l.totalNewOffers,
   statesProcessed |-> StateNames]

\* The final update without currentState: null and currentCasino: null.
FinalizeKeepingPointers(r) ==
  /\ orch[r].pc = "finalize"
  /\ \/ /\ runs' = [runs EXCEPT
                      ![r].status = "completed",
                      ![r].completedAt = TRUE,
                      ![r].missingCasinos = orch[r].missingCasinos,
                      ![r].offerComparisons = orch[r].offerComparisons,
                      ![r].summary = Some(Summary(orch[r]))]
        /\ orch' = [orch EXCEPT ![r] = [InitLocals EXCEPT !.pc = "done"]]
     \/ /\ StoreFails(r)
        /\ UNCHANGED runs
  /\ UNCHANGED <<casinos, offers, apiCalls, requests, itemsLeft,
               service, answered, polled,
               importer, dash>>

\* await ResearchRun.findByIdAndUpdate(runId, { status: 'completed', ... }):
\* the last statement of the try block.
Finalize(r) ==
  /\ orch[r].pc = "finalize"
  /\ \/ /\ runs' = [runs EXCEPT
                      ![r].status = "completed",
                      ![r].completedAt = TRUE,
                      ![r].currentState = None,
                      ![r].currentCasino = None,
                      ![r].missingCasinos = orch[r].missingCasinos,
                      ![r].offerComparisons = orch[r].offerComparisons,
                      ![r].summary = Some(Summary(orch[r]))]
        /\ orch' = [orch EXCEPT ![r] = [InitLocals EXCEPT !.pc = "done"]]
     \/ /\ StoreFails(r)
        /\ UNCHANGED runs
  /\ UNCHANGED <<casinos, offers, apiCalls, requests, itemsLeft,
               service, answered, polled,
               importer, dash>>

\* catch (error): await logProgress(`Research failed: ${error.message}`).  A
\* rejection here leaves performResearch rejected (.catch(console.error)).
CatchLog(r) ==
  /\ orch[r].pc = "catchLog"
  /\ \/ /\ PushLog(r, Msg("failed", orch[r].error))
        /\ orch' = [orch EXCEPT ![r].pc = "catchUpdate"]
     \/ /\ orch' = [orch EXCEPT ![r].pc = "rejected"]
        /\ UNCHANGED runs
  /\ UNCHANGED <<casinos, offers, apiCalls, requests, itemsLeft,
               service, answered, polled,
               importer, dash>>

\* The catch clause also deleting what AI research has stored
\* (Casino.deleteMany({ discovered: true }), Offer.deleteMany({ source:
\* 'ai-research' })).
CatchUpdateRollingBack(r) ==
  /\ orch[r].pc = "catchUpdate"
  /\ \/ /\ runs' = [runs EXCEPT
                      ![r].status = "failed",
                      ![r].completedAt = TRUE,
                      ![r].currentState = None,
                      ![r].currentCasino = None]
        /\ casinos' = SelectSeq(casinos, LAMBDA c : ~c.discovered)
        /\ offers' = SelectSeq(offers, LAMBDA o : o.source # "ai-research")
        /\ orch' = [orch EXCEPT ![r].pc = "done"]
     \/ /\ orch' = [orch EXCEPT ![r].pc = "rejected"]
        /\ UNCHANGED <<runs, casinos, offers>>
  /\ UNCHANGED <<apiCalls, requests, itemsLeft, service, answered, polled,
               importer, dash>>

\* catch (error): await ResearchRun.findByIdAndUpdate(runId, { status:
\* 'failed', completedAt, currentState: null, currentCasino: null }).
CatchUpdate(r) ==
  /\ orch[r].pc = "catchUpdate"
  /\ \/ /\ runs' = [runs EXCEPT
                      ![r].status = "failed",
                      ![r].completedAt = TRUE,
                      ![r].currentState = None,
                      ![r].currentCasino = None]
        /\ orch' = [orch EXCEPT ![r].pc = "done"]
     \/ /\ orch' = [orch EXCEPT ![r].pc = "rejected"]
        /\ UNCHANGED runs
  /\ UNCHANGED <<casinos, offers, apiCalls, requests, itemsLeft,
               service, answered, polled,
               importer, dash>>

\* ----------------------------------------------------------- specification

\* The steps of performResearch between its calls to the completion service.
Orchestrate(r) ==
  \/ FindRun(r)
  \/ LogStarted(r)
  \/ SetCurrentState(r)
  \/ LogState(r)
  \/ LogDiscovering(r)
  \/ DiscoverReturn(r)
  \/ LogFound(r)
  \/ FindExisting(r)
  \/ FindOneCasino(r)
  \/ CreateCasino(r)
  \/ LogNewCasino(r)
  \/ LogMissing(r)
  \/ FindAllCasinos(r)
  \/ LogResearching(r)
  \/ SetCurrentCasino(r)
  \/ LogProcessing(r)
  \/ ResearchReturn(r)
  \/ LogOffers(r)
  \/ FindOffers(r)
  \/ LogNewOffers(r)
  \/ CreateOffer(r)
  \/ SetOffersProcessed(r)
  \/ LogCompleted(r)
  \/ LogDone(r)
  \/ LogTotalMissing(r)
  \/ LogTotalNew(r)
  \/ Finalize(r)
  \/ CatchLog(r)
  \/ CatchUpdate(r)

Step(r) ==
  \/ StartRun(r)
  \/ DiscoverCall(r)
  \/ ResearchCall(r)
  \/ Orchestrate(r)

Next == \E r \in RunIds : Step(r)

Spec == Init /\ [][Next]_vars

\* ------------------------------------------- reconciliation specification

\* The offer reconciliation of one venue on a wider range of offers than a
\* whole run can cover: the run is taken up where it awaits Offer.find for
\* the reference venue "Ab" of New Jersey (discovery returned nothing), and
\* followed until that venue is done.

\* The reference offers the venue can have.
RefOfferPool ==
  { OfferDoc(NameAb, "NJ", Some(nm), Some(ty), Some(100), "internal-api") :
      nm \in {OfferWb, OfferNWbP}, ty \in {TypeWelcome, TypeDepositUpper} }

\* The offers the research response can list.
DiscoveredPool ==
  { [offerName |-> nm, offerType |-> ty, expectedBonus |-> b] :
      nm \in {Some(OfferWb), Some(OfferNWbP), Some(OfferSb), Some(<<>>), None},
      ty \in {Some(TypeWelcome), Some(TypeWelcomeUpper), Some(TypeDeposit), None},
      b \in {Some(40), Some(140), Some(150), Some(160), None} }

\* The progress log of a run that has reached Offer.find for the first venue
\* of New Jersey after an empty discovery, `found` offers having come back.
LogUpToFindOffers(found) ==
  << Msg("started", ""),
     Msg("researching", "New Jersey"),
     Msg("discovering", "New Jersey"),
     Msg("found", Some(0)),
     Msg("noMissing", "New Jersey"),
     Msg("researchingOffers", 1),
     Msg("processing", NameAb),
     Msg("foundOffers", Some(found)) >>

\* The state of such a run, for the reference offers `refs` and the research
\* result `discovered`, with `left` candidates still to come.
AtFindOffers(refs, discovered, left) ==
  /\ casinos = << CasinoDoc(NameAb, "NJ", "New Jersey", FALSE) >>
  /\ offers = refs
  /\ runs = [r \in RunIds |->
              [NewRun EXCEPT !.currentState = Some("New Jersey"),
                             !.currentCasino = Some(NameAb),
                             !.casinosProcessed = 1,
                             !.progressLog = LogUpToFindOffers(Len(discovered))]]
  /\ orch = [r \in RunIds |->
              [InitLocals EXCEPT
                 !.pc = "findOffers",
                 !.allCasinos = << CasinoDoc(NameAb, "NJ", "New Jersey", FALSE) >>,
                 !.totalCasinosProcessed = 1,
                 !.discoveredOffers = List(discovered)]]
  /\ apiCalls = [r \in RunIds |->
                  << [stage |-> "discover", state |-> "New Jersey",
                      casino |-> None],
                     [stage |-> "research", state |-> "New Jersey",
                      casino |-> Some(NameAb)] >>]
  /\ requests = 0
  /\ itemsLeft = left
  /\ service = Unscripted
  /\ answered = RunIds
  /\ polled = {}
  /\ importer = NoImport
  /\ dash = NoDashboard

InitReconcile ==
  \E refs \in ListsUpTo(RefOfferPool, MaxRefOffers) :
    \E discovered \in ListsUpTo(DiscoveredPool, MaxDiscovered) :
       AtFindOffers(refs, discovered, 0)

NextReconcile ==
  \E r \in RunIds :
     \/ FindOffers(r)
     \/ LogNewOffers(r)
     \/ CreateOffer(r)
     \/ SetOffersProcessed(r)

SpecReconcile == InitReconcile /\ [][NextReconcile]_vars

\* ------------------------------------------------ scripted specification

\* Two run requests sent one after the other by the dashboard, to a
\* completion service that answers by a script: the store holds the
\* reference venue "Ab" of New Jersey with one reference offer; discovery
\* lists "Ab" and "Cd" for New Jersey, and nothing for Pennsylvania and West
\* Virginia.

\* The identifiers of the two ResearchRun documents.
RerunIds == {1, 2}

\* The completion text holds a JSON object whose list field is `items`.
Json(items) == [kind |-> "json", value |-> List(items)]

\* The completion call rejects.
Failing == [kind |-> "error", value |-> List(<<>>)]

\* One element of the "offers" list of a research response.
Offer(name, type, bonus) ==
  [offerName |-> Some(name), offerType |-> Some(type),
   expectedBonus |-> Some(bonus)]

\* The store after the reference import of one venue with one offer.
ScenarioStore ==
  [casinos |-> << CasinoDoc(NameAb, "NJ", "New Jersey", FALSE) >>,
   offers |-> << OfferDoc(NameAb, "NJ", Some(OfferWb), Some(TypeWelcome),
                          Some(100), "internal-api") >>]

\* A completion service that answers the discovery prompt of Michigan by
\* `michigan` and the research prompts for "Ab" and "Cd" by the lists `forAb`
\* and `forCd`.
Script(michigan, forAb, forCd) ==
  [scripted |-> TRUE,
   discover |->
     [s \in {States[x].stateName : x \in 1..Len(States)} |->
        IF s = "New Jersey"
        THEN Json(<< [name |-> Some(NameAb)], [name |-> Some(NameCd)] >>)
        ELSE IF s = "Michigan" THEN michigan
        ELSE Json(<<>>)],
   research |->
     [n \in {NameAb, NameCd} |->
        IF n = NameAb THEN Json(forAb) ELSE Json(forCd)]]

\* Discovery of New Jersey returns ["Ab", "Cd"], the other jurisdictions
\* nothing; research returns {wb, w, 120} for "Ab" and {sb, w, 200} for "Cd".
EndToEnd ==
  Script(Json(<<>>),
         << Offer(OfferWb, TypeWelcome, 120) >>,
         << Offer(OfferSb, TypeWelcome, 200) >>)

Scripts ==
  { Script(michigan, forAb, forCd) :
      michigan \in { Json(<<>>), Failing, Json(<< [name |-> Some(NameCd)] >>) },
      forAb \in { << Offer(OfferWb, TypeWelcome, 120) >>,
                  << Offer(OfferWb, TypeWelcome, 120),
                     Offer(OfferSb, TypeWelcomeUpper, 160) >> },
      forCd \in { << Offer(OfferSb, TypeWelcome, 200) >>,
                  << >> } }

InitScripted ==
  /\ casinos = ScenarioStore.casinos
  /\ offers = ScenarioStore.offers
  /\ runs = [r \in RerunIds |-> NoRun]
  /\ orch = [r \in RerunIds |-> InitLocals]
  /\ apiCalls = [r \in RerunIds |-> <<>>]
  /\ requests = Cardinality(RerunIds)
  /\ itemsLeft = 0
  /\ service \in Scripts
  /\ answered = {}
  /\ polled = {}
  /\ importer = NoImport
  /\ dash = NoDashboard

\* handleRunResearch of the dashboard: the button is disabled (loading) from
\* the POST until a poll has shown the run completed or failed, so the next
\* request follows the end of the previous run.
StartRunAfterPrevious(r) ==
  /\ \A q \in RerunIds : q < r => runs[q].status \in {"completed", "failed"}
  /\ StartRun(r)

NextScripted ==
  \E r \in RerunIds :
     \/ StartRunAfterPrevious(r)
     \/ DiscoverCall(r)
     \/ ResearchCall(r)
     \/ Orchestrate(r)

SpecScripted == InitScripted /\ [][NextScripted]_vars

\* ---------------------------------------------- rediscovery specification

\* Two run requests sent one after the other, the store starting empty, to a
\* completion service that lists the venue "C(d)" for New Jersey both times
\* (a name with a parenthesis, as in "Rivers Casino (Philadelphia)"), nothing
\* for the other jurisdictions, and the offer {sb, w, 200} for "C(d)".
SameVenueAgain ==
  [scripted |-> TRUE,
   discover |->
     [s \in {States[x].stateName : x \in 1..Len(States)} |->
        IF s = "New Jersey" THEN Json(<< [name |-> Some(NameCParenD)] >>)
        ELSE Json(<<>>)],
   research |->
     [n \in {NameCParenD} |-> Json(<< Offer(OfferSb, TypeWelcome, 200) >>)]]

InitRediscover ==
  /\ casinos = <<>>
  /\ offers = <<>>
  /\ runs = [r \in RerunIds |-> NoRun]
  /\ orch = [r \in RerunIds |-> InitLocals]
  /\ apiCalls = [r \in RerunIds |-> <<>>]
  /\ requests = Cardinality(RerunIds)
  /\ itemsLeft = 0
  /\ service = SameVenueAgain
  /\ answered = {}
  /\ polled = {}
  /\ importer = NoImport
  /\ dash = NoDashboard

SpecRediscover == InitRediscover /\ [][NextScripted]_vars

\* ---------------------------------------------- concurrent specification

\* Two run requests sent at any time, so that the two runs interleave, and
\* pollers reading the run records meanwhile.  The store starts empty; the
\* completion service lists the venue "Cd" for New Jersey and nothing for
\* the other jurisdictions, and the offer {sb, w, 200} for "Cd".

\* GET /api/research/runs/:id: findById and res.json(run); nothing is written.
GetRun(r) ==
  /\ runs[r].status # "none"
  /\ polled' = polled \cup {r}
  /\ UNCHANGED <<casinos, offers, runs, orch, apiCalls, requests, itemsLeft,
               service, answered, importer, dash>>

\* GET /api/research/runs: find().sort({ startedAt: -1 }).limit(20) and
\* res.json(runs); nothing is written.
ListRuns ==
  /\ polled' = polled \cup { r \in DOMAIN runs : runs[r].status # "none" }
  /\ UNCHANGED <<casinos, offers, runs, orch, apiCalls, requests, itemsLeft,
               service, answered, importer, dash>>

OneNewVenue ==
  [scripted |-> TRUE,
   discover |->
     [s \in {States[x].stateName : x \in 1..Len(States)} |->
        IF s = "New Jersey" THEN Json(<< [name |-> Some(NameCd)] >>)
        ELSE Json(<<>>)],
   research |->
     [n \in {NameCd} |-> Json(<< Offer(OfferSb, TypeWelcome, 200) >>)]]

InitConcurrent ==
  /\ casinos = <<>>
  /\ offers = <<>>
  /\ runs = [r \in RerunIds |-> NoRun]
  /\ orch = [r \in RerunIds |-> InitLocals]
  /\ apiCalls = [r \in RerunIds |-> <<>>]
  /\ requests = Cardinality(RerunIds)
  /\ itemsLeft = 0
  /\ service = OneNewVenue
  /\ answered = {}
  /\ polled = {}
  /\ importer = NoImport
  /\ dash = NoDashboard

NextConcurrent ==
  \/ \E r \in RerunIds :
        \/ StartRun(r)
        \/ DiscoverCall(r)
        \/ ResearchCall(r)
        \/ Orchestrate(r)
        \/ GetRun(r)
  \/ ListRuns

SpecConcurrent == InitConcurrent /\ [][NextConcurrent]_vars

\* ------------------------------------------------ import specification

\* POST /api/research/init sent twice, one request after the other, the
\* upstream API returning the same data both times.  The store is empty, or
\* as two concurrent runs of the concurrent specification have left it.

\* The POST /api/research/init requests.
ImportIds == {1, 2}

\* The items the upstream API returns at most.
MaxUpstream == 2

\* 'unknown'
TypeUnknown == <<"u", "n", "k", "n", "o", "w", "n">>

\* One element of the upstream API's response.
Item(name, offerName, offerType) ==
  [Name |-> name,
   state |-> [Abbreviation |-> "NJ", Name |-> "New Jersey"],
   Offer_Name |-> offerName,
   offer_type |-> offerType,
   Expected_Bonus |-> Some(100)]

UpstreamPool ==
  { Item(name, offerName, offerType) :
      name \in {NameAb, NameCd},
      offerName \in {OfferWb, OfferSb},
      offerType \in {Some(TypeWelcomeUpper), None} }

\* The store after two concurrent runs that both discovered "Cd" in New
\* Jersey: each has inserted the venue, and the offer of each venue it
\* found stored.
StoreAfterConcurrentRuns ==
  [casinos |-> << CasinoDoc(NameCd, "NJ", "New Jersey", TRUE),
                  CasinoDoc(NameCd, "NJ", "New Jersey", TRUE) >>,
   offers |-> [x \in 1..3 |->
                 OfferDoc(NameCd, "NJ", Some(OfferSb), Some(TypeWelcome),
                          Some(200), "ai-research")]]

ImportStores == { [casinos |-> <<>>, offers |-> <<>>], StoreAfterConcurrentRuns }

\* findOneAndUpdate(filter, update, { upsert: true }), `hits` being the
\* positions of the documents the filter matches: the first of them gets the
\* update's fields, and when there is none the document is inserted.
Upsert(docs, hits, doc) ==
  IF hits = {} THEN Append(docs, doc)
  ELSE [docs EXCEPT ![CHOOSE x \in hits : \A y \in hits : x <= y] = doc]

\* || 'unknown' for the optional offer_type.
OrUnknown(o) == IF IsSome(o) /\ Get(o) # <<>> THEN Get(o) ELSE TypeUnknown

\* Offer.findOneAndUpdate({ casinoName, stateAbbreviation, offerName },
\* { ..., source: 'internal-api' }, { upsert: true }) for one item.
UpsertOffer(docs, item) ==
  Upsert(docs,
         { x \in 1..Len(docs) :
             /\ docs[x].casinoName = item.Name
             /\ docs[x].stateAbbreviation = item.state.Abbreviation
             /\ docs[x].offerName = Some(item.Offer_Name) },
         OfferDoc(item.Name, item.state.Abbreviation, Some(item.Offer_Name),
                  Some(OrUnknown(item.offer_type)),
                  Some(OrZero(item.Expected_Bonus)), "internal-api"))

\* Casino.findOneAndUpdate({ name, stateAbbreviation },
\* { ...casino, discovered: false }, { upsert: true }) for one tracked venue.
UpsertCasino(docs, casino) ==
  Upsert(docs,
         { x \in 1..Len(docs) :
             /\ docs[x].name = casino.name
             /\ docs[x].stateAbbreviation = casino.stateAbbreviation },
         CasinoDoc(casino.name, casino.stateAbbreviation, casino.state, FALSE))

\* `${item.Name}-${item.state.Abbreviation}`: the abbreviation holds no
\* hyphen, so it is kept whole at the end of the key.
CasinoKey(item) == Append(Append(item.Name, "-"), item.state.Abbreviation)

\* if (!casinos.has(casinoKey)) casinos.set(casinoKey, { name, state,
\* stateAbbreviation }): the Map keeps its entries in insertion order.
Track(tracked, item) ==
  IF \E x \in 1..Len(tracked) : tracked[x].key = CasinoKey(item) THEN tracked
  ELSE Append(tracked, [key |-> CasinoKey(item),
                        name |-> item.Name,
                        state |-> item.state.Name,
                        stateAbbreviation |-> item.state.Abbreviation])

\* res.json({ success: true, ... }): the import is done; the store as the
\* first import left it is recorded.
Responded(l, store) ==
  [l EXCEPT !.pc = "idle", !.x = 1, !.casinos = <<>>, !.c = 1,
            !.done = @ + 1,
            !.afterFirst = IF l.done = 0 THEN Some(store) ELSE @]

\* The head of the loop over casinos.values() at index l.c; past its end the
\* response is sent.
EnterTracked(l, store) ==
  IF l.c > Len(l.casinos) THEN Responded(l, store) ELSE [l EXCEPT !.pc = "casinos"]

\* The head of the loop over apiData at index l.x.
EnterItem(l, store) ==
  IF l.x > Len(l.data) THEN EnterTracked([l EXCEPT !.c = 1], store)
  ELSE [l EXCEPT !.pc = "offers"]

\* The catch clause of the handler: res.status(500); the locals are gone.
ImportFails == [importer EXCEPT !.pc = "idle", !.x = 1, !.casinos = <<>>, !.c = 1]

\* POST /api/research/init up to its first store operation: axios.get has
\* returned apiData.  (A rejected axios.get is answered 500 and changes
\* nothing.)
StartInit ==
  /\ importer.pc = "idle"
  /\ importer.done < Cardinality(ImportIds)
  /\ importer' = EnterItem([importer EXCEPT !.x = 1, !.casinos = <<>>],
                           [casinos |-> casinos, offers |-> offers])
  /\ UNCHANGED <<casinos, offers, runs, orch, apiCalls, requests, itemsLeft,
               service, answered, polled, dash>>

\* await Offer.findOneAndUpdate(...) for the item at x, then the tracking of
\* its venue.
ImportOffer ==
  /\ importer.pc = "offers"
  /\ \/ /\ offers' = UpsertOffer(offers, importer.data[importer.x])
        /\ importer' =
             EnterItem([importer EXCEPT
                          !.x = @ + 1,
                          !.casinos = Track(@, importer.data[importer.x])],
                       [casinos |-> casinos, offers |-> offers'])
     \/ /\ importer' = ImportFails
        /\ UNCHANGED offers
  /\ UNCHANGED <<casinos, runs, orch, apiCalls, requests, itemsLeft,
               service, answered, polled, dash>>

\* await Casino.findOneAndUpdate(...) for the tracked venue at c.
ImportCasino ==
  /\ importer.pc = "casinos"
  /\ \/ /\ casinos' = UpsertCasino(casinos, importer.casinos[importer.c])
        /\ importer' =
             EnterTracked([importer EXCEPT !.c = @ + 1],
                          [casinos |-> casinos', offers |-> offers])
     \/ /\ importer' = ImportFails
        /\ UNCHANGED casinos
  /\ UNCHANGED <<offers, runs, orch, apiCalls, requests, itemsLeft,
               service, answered, polled, dash>>

InitImport ==
  /\ \E store \in ImportStores :
       /\ casinos = store.casinos
       /\ offers = store.offers
  /\ runs = [r \in RunIds |-> NoRun]
  /\ orch = [r \in RunIds |-> InitLocals]
  /\ apiCalls = [r \in RunIds |-> <<>>]
  /\ requests = 0
  /\ itemsLeft = 0
  /\ service = Unscripted
  /\ answered = {}
  /\ polled = {}
  /\ \E data \in ListsUpTo(UpstreamPool, MaxUpstream) :
       importer = [NoImport EXCEPT !.data = data]
  /\ dash = NoDashboard

NextImport == StartInit \/ ImportOffer \/ ImportCasino

SpecImport == InitImport /\ [][NextImport]_vars

\* --------------------------------------------- dashboard specification

\* The dashboard's "Run Full Research" against the server: handleRunResearch
\* posts the request and polls the run's record while performResearch goes
\* on.  The store starts empty and the completion service answers as in the
\* concurrent specification.  The server answers or fails every request in
\* the end, and the timer of the loop fires.

\* while (!completed && attempts < 200)
MaxAttempts == 200

\* The finally clause, reached from the end of the loop or from the catch
\* clause: setLoading(false).
Finally(d) == [d EXCEPT !.pc = "idle", !.loading = FALSE]

\* The click on "Run Full Research" (disabled while loading) up to the await
\* of the POST: setLoading(true), and the request is on its way.
Click ==
  /\ dash.pc = "idle"
  /\ ~dash.loading
  /\ \E r \in RunIds : runs[r].status = "none"
  /\ dash' = [NoDashboard EXCEPT !.pc = "post", !.loading = TRUE]
  /\ requests' = requests + 1
  /\ UNCHANGED <<casinos, offers, runs, orch, apiCalls, itemsLeft, service,
               answered, polled, importer>>

\* The POST is answered with the run's id: alert, completed = false,
\* attempts = 0, and the loop is entered.
PostAnswered(r) ==
  /\ dash.pc = "post"
  /\ r \in answered
  /\ dash' = [dash EXCEPT !.pc = "poll", !.runId = Some(r),
                          !.completed = FALSE, !.attempts = 0]
  /\ UNCHANGED <<casinos, offers, runs, orch, apiCalls, requests, itemsLeft,
               service, answered, polled, importer>>

\* The POST's handler has rejected (ResearchRun.create failed) and the fetch
\* rejects: catch, then finally.
PostRejected ==
  /\ dash.pc = "post"
  /\ requests = 0
  /\ answered = {}
  /\ dash' = Finally(dash)
  /\ UNCHANGED <<casinos, offers, runs, orch, apiCalls, requests, itemsLeft,
               service, answered, polled, importer>>

\* The body of the loop with completed = true on status completed alone: a
\* failed run is polled on.
AfterPollUntilCompleted(d, status) ==
  LET next == [d EXCEPT !.seen = status,
                        !.completed = status = "completed",
                        !.attempts = @ + 1]
  IN  IF ~next.completed /\ next.attempts < MaxAttempts THEN next
      ELSE Finally(next)

\* The body of the loop after a poll has returned the record with `status`:
\* completed = true on a terminal status, attempts++, and the test of the
\* loop; past the loop, finally.
AfterPoll(d, status) ==
  LET next == [d EXCEPT !.seen = status,
                        !.completed = status \in {"completed", "failed"},
                        !.attempts = @ + 1]
  IN  IF ~next.completed /\ next.attempts < MaxAttempts THEN next
      ELSE Finally(next)

\* One iteration of the loop: the 3 s timer, GET /api/research/runs/:id and
\* the body; or the fetch rejects: catch, then finally.
Poll ==
  /\ dash.pc = "poll"
  /\ \/ /\ dash' = AfterPoll(dash, runs[Get(dash.runId)].status)
        /\ polled' = polled \cup {Get(dash.runId)}
     \/ /\ dash' = Finally(dash)
        /\ UNCHANGED polled
  /\ UNCHANGED <<casinos, offers, runs, orch, apiCalls, requests, itemsLeft,
               service, answered, importer>>

InitDashboard ==
  /\ casinos = <<>>
  /\ offers = <<>>
  /\ runs = [r \in RunIds |-> NoRun]
  /\ orch = [r \in RunIds |-> InitLocals]
  /\ apiCalls = [r \in RunIds |-> <<>>]
  /\ requests = 0
  /\ itemsLeft = 0
  /\ service = OneNewVenue
  /\ answered = {}
  /\ polled = {}
  /\ importer = NoImport
  /\ dash = NoDashboard

\* The server's part: the POST handler and performResearch.
Serve ==
  \E r \in RunIds :
     \/ StartRun(r)
     \/ DiscoverCall(r)
     \/ ResearchCall(r)
     \/ Orchestrate(r)

\* The dashboard's part.
Browse ==
  \/ Click
  \/ \E r \in RunIds : PostAnswered(r)
  \/ PostRejected
  \/ Poll

NextDashboard == Serve \/ Browse

\* The POST is handled, and every step of handleRunResearch that can be
\* taken is taken in the end; performResearch may stop at any point.
SpecDashboard ==
  /\ InitDashboard
  /\ [][NextDashboard]_vars
  /\ WF_vars(\E r \in RunIds : StartRun(r))
  /\ WF_vars(\E r \in RunIds : PostAnswered(r))
  /\ WF_vars(PostRejected)
  /\ WF_vars(Poll)

\* ================================================================= claims

Terminal == {"completed", "failed"}

\* performResearch of run r has settled: it returned, or its promise rejected.
Settled(r) == orch[r].pc \in {"done", "rejected"}

\* C1: a run record exists with status in-progress from its creation (never
\* pending); its status then changes only from in-progress to completed or to
\* failed, so to at most one of them; and once the status is completed or
\* failed no field of the record is written again.
C1_RunLifecycle ==
  [][\A r \in RunIds :
       /\ runs'[r].status \in {"none", "in-progress", "completed", "failed"}
       /\ (runs[r].status = "none" /\ runs'[r].status # "none")
            => runs'[r].status = "in-progress"
       /\ (runs[r].status # "none" /\ runs'[r].status # runs[r].status)
            => (runs[r].status = "in-progress" /\ runs'[r].status \in Terminal)
       /\ runs[r].status \in Terminal => runs'[r] = runs[r]]_vars

\* A run that went through every jurisdiction and was completed.
C1_Witness ==
  \E r \in RunIds :
     /\ runs[r].status = "completed"
     /\ orch[r].pc = "done"
     /\ Len(runs[r].progressLog) > Len(States)

\* C2: every started run reaches status completed or failed, whatever fails.
\* performResearch takes finitely many steps, so the run's status is final
\* once performResearch has settled: the claim is that it is terminal then.
C2_SettledRunIsTerminal ==
  \A r \in RunIds : Settled(r) => runs[r].status \in Terminal

\* The last entry of a progress log is the failure entry for `message`.
EndsWithFailure(log, message) ==
  /\ log # <<>>
  /\ log[Len(log)].msg = "failed"
  /\ log[Len(log)].detail = message

\* C3: when an error has escaped the loop, the run record ends with status
\* failed, completedAt set, both pointers cleared and the error message as
\* its last progress-log entry.
C3_EscapedErrorEndsFailed ==
  \A r \in RunIds :
     (Settled(r) /\ orch[r].error # "")
       => /\ runs[r].status = "failed"
          /\ runs[r].completedAt
          /\ runs[r].currentState = None
          /\ runs[r].currentCasino = None
          /\ EndsWithFailure(runs[r].progressLog, orch[r].error)

\* The responses the claim calls a stage failure: the completion call
\* errors, or the text holds no parseable JSON object.
StageFailureKinds == {"error", "noJson", "badJson"}

\* C4: a failure of discover or research never reaches the orchestrator: the
\* stage returns the empty list, the run goes on with its next step and its
\* record is not touched by the failure; the only errors performResearch ever
\* catches are store errors and type errors.
C4_StageFailuresAbsorbed ==
  /\ [](\A r \in RunIds : orch[r].error \in {"", "StoreError", "TypeError"})
  /\ [][\A r \in RunIds :
          (/\ orch[r].pc \in {"discoverRet", "researchRet"}
           /\ orch[r].response.kind \in StageFailureKinds
           /\ orch'[r] # orch[r])
            => /\ runs'[r] = runs[r]
               /\ orch'[r].error = ""
               /\ IF orch[r].pc = "discoverRet"
                  THEN /\ orch'[r].pc = "logFound"
                       /\ orch'[r].discoveredCasinos = List(<<>>)
                  ELSE /\ orch'[r].pc = "logOffers"
                       /\ orch'[r].discoveredOffers = List(<<>>)]_vars

\* The completion call of discover has failed for a jurisdiction after the
\* first, in a run that is in progress.
C4_Witness ==
  \E r \in RunIds :
     /\ orch[r].pc = "discoverRet"
     /\ orch[r].response.kind = "error"
     /\ orch[r].i > 1
     /\ runs[r].status = "in-progress"

\* The jurisdictions of the fixed enumeration, as the claim lists them.
Enumeration == <<"New Jersey", "Michigan", "Pennsylvania", "West Virginia">>

\* The jurisdictions run r has invoked discover for, in invocation order.
DiscoverInvocations(r) ==
  LET calls == SelectSeq(apiCalls[r], LAMBDA c : c.stage = "discover")
  IN  [x \in 1..Len(calls) |-> calls[x].state]

IsPrefix(s, t) == Len(s) <= Len(t) /\ s = SubSeq(t, 1, Len(s))

\* C5 as stated: every run that has ended has invoked discover exactly once
\* for each jurisdiction, in enumeration order.
C5_EveryRunDiscoversAll ==
  \A r \in RunIds : Settled(r) => DiscoverInvocations(r) = Enumeration

\* C5 amended: the discover invocations of a run are always an initial
\* segment of the enumeration (each jurisdiction at most once, in order),
\* and the whole enumeration in a completed run.
C5_DiscoverInEnumerationOrder ==
  \A r \in RunIds :
     /\ IsPrefix(DiscoverInvocations(r), Enumeration)
     /\ runs[r].status = "completed" => DiscoverInvocations(r) = Enumeration

\* A completed run, with its four discover invocations.
C5_Witness ==
  \E r \in RunIds :
     /\ runs[r].status = "completed"
     /\ Len(DiscoverInvocations(r)) = 4

\* The identity key of a venue: lower-cased, trimmed name and jurisdiction.
IdentityKey(name, abbrev) == <<Trim(ToLowerCase(name)), abbrev>>

\* C6: after any run (here: once a run is completed) no two stored venues
\* have the same identity key.
C6_UniqueIdentityKeys ==
  \A r \in RunIds :
     runs[r].status = "completed" =>
       \A a, b \in 1..Len(casinos) :
          a # b => IdentityKey(casinos[a].name, casinos[a].stateAbbreviation)
                     # IdentityKey(casinos[b].name, casinos[b].stateAbbreviation)

\* C7: a candidate whose name equals a stored venue's name of the same
\* jurisdiction after lower-casing and trimming is classified already-known:
\* it is not put on the missing list and no venue is created for it.
C7_MatchIgnoresCaseAndPadding ==
  \A r \in RunIds :
     orch[r].pc = "createCasino" =>
       \A a \in 1..Len(casinos) :
          IdentityKey(casinos[a].name, casinos[a].stateAbbreviation)
            # IdentityKey(CurCandidateName(r), CurState(r).abbrev)

\* The reference offers stored for the venue run r is processing.
ReferenceOffersOf(r) ==
  SelectSeq(offers, LAMBDA o : /\ o.source = "internal-api"
                               /\ o.casinoName = CurCasino(r).name
                               /\ o.stateAbbreviation = CurState(r).abbrev)

\* Run r has classified the offers of its current venue.
Classified(r) ==
  orch[r].pc \in {"logNewOffers", "createOffer", "setOffersProcessed"}

\* The discovered offer d was classified new by run r.
ClassifiedNew(r, d) ==
  \E x \in 1..Len(orch[r].newOffers) : orch[r].newOffers[x] = d

\* s contains t, letter case ignored: t's characters occur in s from some
\* offset on.
ContainsIgnoringCase(s, t) ==
  \E a \in 0..(Len(s) - Len(t)) :
     \A x \in 1..Len(t) : LowerChar(s[a + x]) = LowerChar(t[x])

\* One of the two offers' names contains the other.
NamesOverlap(c, d) ==
  /\ IsSome(c.offerName)
  /\ IsSome(d.offerName)
  /\ \/ ContainsIgnoringCase(Get(c.offerName), Get(d.offerName))
     \/ ContainsIgnoringCase(Get(d.offerName), Get(c.offerName))

\* The two offers have the same type, letter case ignored.
SameType(c, d) ==
  /\ IsSome(c.offerType)
  /\ IsSome(d.offerType)
  /\ Len(Get(c.offerType)) = Len(Get(d.offerType))
  /\ \A x \in 1..Len(Get(c.offerType)) :
        LowerChar(Get(c.offerType)[x]) = LowerChar(Get(d.offerType)[x])

\* An offer's expected bonus, 0 when it has none.
Bonus(o) == IF IsSome(o.expectedBonus) THEN Get(o.expectedBonus) ELSE 0

\* The two bonuses are less than 50 apart, whichever is larger.
BonusesClose(c, d) ==
  IF Bonus(c) >= Bonus(d) THEN Bonus(c) - Bonus(d) < 50
  ELSE Bonus(d) - Bonus(c) < 50

\* C8: rule (b): a discovered offer whose name overlaps with no reference
\* offer's name is classified known iff some reference offer of the venue has
\* the same type (case-insensitively) and a bonus less than 50 away.
C8_RuleB_TypeAndAmount ==
  \A r \in RunIds :
     Classified(r) =>
       LET refs == ReferenceOffersOf(r)
           found == orch[r].discoveredOffers.items
       IN  \A y \in 1..Len(found) :
              (\A x \in 1..Len(refs) : ~NamesOverlap(refs[x], found[y]))
                => (~ClassifiedNew(r, found[y])
                      <=> \E x \in 1..Len(refs) :
                             /\ SameType(refs[x], found[y])
                             /\ BonusesClose(refs[x], found[y]))

\* A stored bonus of 100 and a candidate of the same type (in another case)
\* with a bonus of 150, classified new.
C8_Witness ==
  \E r \in RunIds :
     /\ orch[r].pc = "logNewOffers"
     /\ ReferenceOffersOf(r) =
          << OfferDoc(NameAb, "NJ", Some(OfferWb), Some(TypeWelcome),
                      Some(100), "internal-api") >>
     /\ orch[r].discoveredOffers.items =
          << [offerName |-> Some(OfferSb), offerType |-> Some(TypeWelcomeUpper),
              expectedBonus |-> Some(150)] >>
     /\ orch[r].newOffers = orch[r].discoveredOffers.items

\* C9: rule (a): a discovered offer whose name contains the name of a
\* reference offer of the venue, or is contained in it, letter case ignored,
\* is classified known, whatever the types and the bonuses.
C9_RuleA_NameContainment ==
  \A r \in RunIds :
     Classified(r) =>
       LET refs == ReferenceOffersOf(r)
           found == orch[r].discoveredOffers.items
       IN  \A y \in 1..Len(found) :
              (\E x \in 1..Len(refs) : NamesOverlap(refs[x], found[y]))
                => ~ClassifiedNew(r, found[y])

\* The stored name "wb" and the candidate "nWBp", of another type and with a
\* bonus 60 away, classified known.
C9_Witness ==
  \E r \in RunIds :
     /\ orch[r].pc = "setOffersProcessed"
     /\ ReferenceOffersOf(r) =
          << OfferDoc(NameAb, "NJ", Some(OfferWb), Some(TypeDepositUpper),
                      Some(100), "internal-api") >>
     /\ orch[r].discoveredOffers.items =
          << [offerName |-> Some(OfferNWbP), offerType |-> Some(TypeWelcome),
              expectedBonus |-> Some(40)] >>
     /\ orch[r].newOffers = <<>>

\* The sum of the lengths of the lists of a list.
RECURSIVE TotalLength(_)
TotalLength(lists) ==
  IF lists = <<>> THEN 0 ELSE Len(Head(lists)) + TotalLength(Tail(lists))

\* C10: in a completed run record, summary.totalMissingCasinos is the sum of
\* casinos.length over missingCasinos and summary.totalNewOffers the sum of
\* newOffers.length over offerComparisons.
C10_SummaryTotals ==
  \A r \in RunIds :
     runs[r].status = "completed" =>
       /\ IsSome(runs[r].summary)
       /\ Get(runs[r].summary).totalMissingCasinos =
            TotalLength([x \in 1..Len(runs[r].missingCasinos) |->
                           runs[r].missingCasinos[x].casinos])
       /\ Get(runs[r].summary).totalNewOffers =
            TotalLength([x \in 1..Len(runs[r].offerComparisons) |->
                           runs[r].offerComparisons[x].newOffers])

\* A completed run that reported a missing venue and two new offers.
C10_Witness ==
  \E r \in RunIds :
     /\ runs[r].status = "completed"
     /\ Len(runs[r].missingCasinos) = 1
     /\ Get(runs[r].summary).totalMissingCasinos = 1
     /\ Get(runs[r].summary).totalNewOffers = 2

\* C11: the end-to-end scenario.  The store holds only the reference venue
\* "Ab" of New Jersey with the reference offer {wb, w, 100}; discovery returns
\* ["Ab", "Cd"] for New Jersey and nothing elsewhere; research returns
\* {wb, w, 120} for "Ab" and {sb, w, 200} for "Cd".  Unless the store fails,
\* the first run ends completed with exactly one missing-venue entry (New
\* Jersey: "Cd"), exactly one comparison entry ("Cd", one new offer),
\* totalMissingCasinos = 1 and totalNewOffers = 1.
C11_EndToEndScenario ==
  (service = EndToEnd /\ Settled(1)) =>
     \/ orch[1].error = "StoreError"
     \/ /\ runs[1].status = "completed"
        /\ runs[1].missingCasinos =
             << [state |-> "New Jersey", casinos |-> << NameCd >>] >>
        /\ Len(runs[1].offerComparisons) = 1
        /\ runs[1].offerComparisons[1].casinoName = NameCd
        /\ runs[1].offerComparisons[1].newOffers =
             << [name |-> Some(OfferSb), type |-> Some(TypeWelcome),
                 bonus |-> Some(200)] >>
        /\ Get(runs[1].summary).totalMissingCasinos = 1
        /\ Get(runs[1].summary).totalNewOffers = 1

\* The first run of the scenario has ended completed.
C11_Witness ==
  /\ service = EndToEnd
  /\ orch[1].pc = "done"
  /\ runs[1].status = "completed"
  /\ Len(runs[1].missingCasinos) = 1

\* C12: start_run is non-blocking: the step that creates the run record
\* leaves it with status in-progress and has answered the request, when
\* performResearch is only at its first await and no discover or research
\* call of the run has been issued, let alone finished.
C12_StartRunNonBlocking ==
  [][\A r \in RunIds :
       (runs[r].status = "none" /\ runs'[r].status # "none")
         => /\ runs'[r].status = "in-progress"
            /\ r \in answered'
            /\ orch'[r].pc = "findRun"
            /\ apiCalls'[r] = <<>>]_vars

\* The request has been answered and the run, still in-progress, awaits the
\* response of its first discover call.
C12_Witness ==
  \E r \in RunIds :
     /\ r \in answered
     /\ runs[r].status = "in-progress"
     /\ orch[r].pc = "discoverRet"
     /\ Len(apiCalls[r]) = 1

\* C13: from one state of a run record to the next, casinosProcessed and
\* offersProcessed never decrease and progressLog only grows at its end: the
\* old log is an initial segment of the new one.
C13_CountersAndLogMonotonic ==
  [][\A r \in RunIds :
       /\ runs'[r].casinosProcessed >= runs[r].casinosProcessed
       /\ runs'[r].offersProcessed >= runs[r].offersProcessed
       /\ IsPrefix(runs[r].progressLog, runs'[r].progressLog)]_vars

\* Both counters have been raised, the venue counter twice, after several
\* log entries.
C13_Witness ==
  \E r \in RunIds :
     /\ runs[r].casinosProcessed = 2
     /\ runs[r].offersProcessed >= 1
     /\ Len(runs[r].progressLog) > 10

\* The records of `new` after the first Len(old) ones.
Added(old, new) == SubSeq(new, Len(old) + 1, Len(new))

\* C14: a step of a run never modifies or deletes a stored venue or offer:
\* the venues and offers stored before the step are still stored, unchanged
\* and in place, after it; every record the step adds is of AI origin
\* (discovered for a venue, source ai-research for an offer); so the
\* reference venues and offers stay as they were at the start of the run.
C14_RunOnlyInsertsAiRecords ==
  [][/\ IsPrefix(casinos, casinos')
     /\ IsPrefix(offers, offers')
     /\ \A x \in 1..Len(Added(casinos, casinos')) :
           Added(casinos, casinos')[x].discovered
     /\ \A x \in 1..Len(Added(offers, offers')) :
           Added(offers, offers')[x].source = "ai-research"
     /\ SelectSeq(casinos', LAMBDA c : ~c.discovered)
          = SelectSeq(casinos, LAMBDA c : ~c.discovered)
     /\ SelectSeq(offers', LAMBDA o : o.source = "internal-api")
          = SelectSeq(offers, LAMBDA o : o.source = "internal-api")]_vars

\* A run has inserted a venue and an offer next to the reference venue and
\* its reference offer.
C14_Witness ==
  /\ Len(casinos) >= 2
  /\ ~casinos[1].discovered
  /\ casinos[Len(casinos)].discovered
  /\ Len(offers) >= 2
  /\ offers[1].source = "internal-api"
  /\ offers[Len(offers)].source = "ai-research"

\* C15: no partial rollback: no step of a run from its failure on (the step
\* that throws, the failure log entry, the transition to failed) changes the
\* stored venues and offers, so what the run inserted before it failed is
\* still stored, unchanged, once the record is failed.
C15_NoRollbackOnFailure ==
  [][\A r \in RunIds :
       (/\ orch'[r].error # ""
        /\ (orch'[r] # orch[r] \/ runs'[r] # runs[r]))
         => /\ casinos' = casinos
            /\ offers' = offers]_vars

\* A failed run, with a venue and an offer it inserted in the store.
C15_Witness ==
  \E r \in RunIds :
     /\ runs[r].status = "failed"
     /\ \E x \in 1..Len(casinos) : casinos[x].discovered
     /\ \E x \in 1..Len(offers) : offers[x].source = "ai-research"

\* C16: a failed run record reflects what was computed up to the failure:
\* every venue the run found missing (and stored) before it failed is on the
\* record's missing-venue list under its jurisdiction, and every new offer
\* it found (and stored) is among the new offers of a comparison entry for
\* its venue.
C16_FailedRecordKeepsFindings ==
  \A r \in RunIds :
     runs[r].status = "failed" =>
       /\ \A x \in 1..Len(casinos) :
             casinos[x].discovered =>
               \E y \in 1..Len(runs[r].missingCasinos) :
                  /\ runs[r].missingCasinos[y].state = casinos[x].state
                  /\ \E z \in 1..Len(runs[r].missingCasinos[y].casinos) :
                        runs[r].missingCasinos[y].casinos[z] = casinos[x].name
       /\ \A x \in 1..Len(offers) :
             offers[x].source = "ai-research" =>
               \E y \in 1..Len(runs[r].offerComparisons) :
                  /\ runs[r].offerComparisons[y].casinoName = offers[x].casinoName
                  /\ \E z \in 1..Len(runs[r].offerComparisons[y].newOffers) :
                        runs[r].offerComparisons[y].newOffers[z].name
                          = offers[x].offerName

\* The number of entries of a progress log with message m.
Logged(log, m) == Len(SelectSeq(log, LAMBDA e : e.msg = m))

\* The number of calls of a stage among the calls a run has issued.
Issued(calls, stage) == Len(SelectSeq(calls, LAMBDA c : c.stage = stage))

\* The invocations of a stage by run r so far: the orchestrator invokes
\* discover after each 'Discovering casinos in ...' entry and research after
\* each 'Processing: ...' entry; the last entry's invocation is still to come
\* while the run is at the invocation.
Invoked(r, m, at) ==
  Logged(runs[r].progressLog, m) - (IF orch[r].pc = at THEN 1 ELSE 0)

AttemptsOfLastCall(r) ==
  Len(SelectSeq(apiCalls[r],
                LAMBDA c : c = apiCalls[r][Len(apiCalls[r])]))

\* C18: a failed completion call is retried before the system gives up on
\* it: when a stage reports to the orchestrator after a failed call, the
\* prompt of that call has been sent at least twice.
C18_FailedCallIsRetried ==
  [][\A r \in RunIds :
       (/\ orch[r].pc \in {"discoverRet", "researchRet"}
        /\ orch[r].response.kind = "error"
        /\ orch'[r].pc \in {"logFound", "logOffers"})
         => AttemptsOfLastCall(r) >= 2]_vars

\* The offers the comparison entries of a run record report as new, each
\* with its venue, in the order of the entries.
RECURSIVE ReportedNew(_)
ReportedNew(comparisons) ==
  IF comparisons = <<>> THEN <<>>
  ELSE LET c == Head(comparisons)
       IN  [x \in 1..Len(c.newOffers) |->
              [casinoName |-> c.casinoName, offer |-> c.newOffers[x]]]
           \o ReportedNew(Tail(comparisons))

\* The stored offers of source ai-research, each with its venue, in
\* insertion order.
StoredByResearch ==
  LET ai == SelectSeq(offers, LAMBDA o : o.source = "ai-research")
  IN  [x \in 1..Len(ai) |->
         [casinoName |-> ai[x].casinoName, offer |-> Brief(ai[x])]]

\* C19: research is not idempotent for offers: when two runs have completed
\* one after the other against the same reference data, research having
\* returned the same offers both times, the second run has classified new
\* the very offers the first did, and the store holds each of them twice:
\* the first run's insertions followed by the same insertions again.
C19_SecondRunInsertsAgain ==
  (runs[1].status = "completed" /\ runs[2].status = "completed") =>
     /\ ReportedNew(runs[2].offerComparisons)
          = ReportedNew(runs[1].offerComparisons)
     /\ StoredByResearch = ReportedNew(runs[1].offerComparisons)
                             \o ReportedNew(runs[2].offerComparisons)

\* Both runs have completed; the first reported two new offers or more and
\* the store holds four or more offers of source ai-research.
C19_Witness ==
  /\ runs[1].status = "completed"
  /\ runs[2].status = "completed"
  /\ Len(ReportedNew(runs[1].offerComparisons)) >= 2
  /\ Len(StoredByResearch) >= 4

\* C20: the write that makes a run completed is the one that sets
\* completedAt, clears currentState and currentCasino and stores the
\* missing-venue list, the comparison list and the summary (none of them
\* stored before), with the four jurisdictions as summary.statesProcessed;
\* hence every completed record has completedAt, null pointers and a summary.
C20_CompletionWrite ==
  /\ [](\A r \in RunIds :
          runs[r].status = "completed" =>
            /\ runs[r].completedAt
            /\ runs[r].currentState = None
            /\ runs[r].currentCasino = None
            /\ IsSome(runs[r].summary)
            /\ Get(runs[r].summary).statesProcessed = Enumeration)
  /\ [][\A r \in RunIds :
          (runs[r].status # "completed" /\ runs'[r].status = "completed")
            => /\ ~runs[r].completedAt
               /\ runs[r].currentState # None
               /\ runs[r].summary = None
               /\ runs[r].missingCasinos = <<>>
               /\ runs[r].offerComparisons = <<>>
               /\ runs'[r].missingCasinos = orch[r].missingCasinos
               /\ runs'[r].offerComparisons = orch[r].offerComparisons
               /\ runs'[r].summary =
                    Some([totalMissingCasinos |->
                            SumMissing(orch[r].missingCasinos),
                          totalNewOffers |-> orch[r].totalNewOffers,
                          statesProcessed |-> Enumeration])]_vars

\* A completed record with a missing-venue entry and a comparison entry.
C20_Witness ==
  \E r \in RunIds :
     /\ runs[r].status = "completed"
     /\ runs[r].completedAt
     /\ Len(runs[r].missingCasinos) >= 1
     /\ Len(runs[r].offerComparisons) >= 1

\* C21: start_run is never refused: whenever a request is sent, whatever the
\* other runs are doing, the handler can create the next run record
\* in-progress and start its orchestration; so two runs are in-progress at
\* once and interleave their store reads and writes.
C21_StartRunNeverRefused ==
  \A r \in RerunIds :
     (/\ requests > 0
      /\ runs[r].status = "none"
      /\ \A q \in RerunIds : q < r => runs[q].status # "none")
       => ENABLED (/\ StartRun(r)
                   /\ runs'[r].status = "in-progress"
                   /\ orch'[r].pc = "findRun")

\* Two runs in-progress at once, each between its venue lookup and its venue
\* insert.
C21_Witness ==
  /\ runs[1].status = "in-progress"
  /\ runs[2].status = "in-progress"
  /\ orch[1].pc = "createCasino"
  /\ orch[2].pc = "createCasino"

\* C22: identity-key uniqueness under concurrency: with two runs executing
\* at the same time and discovering the same unknown venue of one
\* jurisdiction, no two stored venues have the same identity key, however
\* their lookups and inserts interleave.
C22_UniqueKeysUnderConcurrency ==
  \A a, b \in 1..Len(casinos) :
     a # b => IdentityKey(casinos[a].name, casinos[a].stateAbbreviation)
                # IdentityKey(casinos[b].name, casinos[b].stateAbbreviation)

\* C23: a run record is written only by the orchestrator of its run: a step
\* that changes the record of run a is a step of a's own handler or
\* orchestrator, and is neither a step of another run nor a poller's GET.
C23_RecordOwnedByItsRun ==
  [][\A a \in RerunIds :
       runs'[a] # runs[a]
         => /\ orch'[a] # orch[a]
            /\ \A b \in RerunIds \ {a} :
                  orch'[b] = orch[b] /\ runs'[b] = runs[b]
            /\ polled' = polled]_vars

\* Two runs in progress at different points, both records having been read
\* by a poller.
C23_Witness ==
  /\ runs[1].status = "in-progress"
  /\ runs[2].status = "in-progress"
  /\ Len(runs[1].progressLog) > Len(runs[2].progressLog)
  /\ runs[2].progressLog # <<>>
  /\ polled = RerunIds

\* The stored venues of AI origin with the given name and jurisdiction.
InsertedFor(name, stateName) ==
  SelectSeq(casinos, LAMBDA c : /\ c.discovered
                                /\ c.name = name
                                /\ c.state = stateName)

\* C24: a candidate is put on the missing list iff no stored venue of the
\* jurisdiction matched it, and every name on a missing list has exactly one
\* venue of AI origin inserted for it, by the run that listed it: a later run
\* that discovers the venue under the same name finds it stored and neither
\* lists nor inserts it again.  So for every name on the missing list of a
\* completed run exactly one such venue is stored.
C24_MissingVenueInsertedOnce ==
  \A r \in RerunIds :
     runs[r].status = "completed" =>
       \A y \in 1..Len(runs[r].missingCasinos) :
          \A z \in 1..Len(runs[r].missingCasinos[y].casinos) :
             Len(InsertedFor(runs[r].missingCasinos[y].casinos[z],
                             runs[r].missingCasinos[y].state)) = 1

\* The names of the venues in a list of venue documents.
NamesOf(docs) == [x \in 1..Len(docs) |-> docs[x].name]

\* The venues run r has invoked research for in a jurisdiction, in
\* invocation order.
ResearchedIn(r, stateName) ==
  LET calls == SelectSeq(apiCalls[r], LAMBDA c : /\ c.stage = "research"
                                                 /\ c.state = stateName)
  IN  [x \in 1..Len(calls) |-> Get(calls[x].casino)]

\* The venues stored for a jurisdiction.
StoredIn(abbrev) ==
  SelectSeq(casinos, LAMBDA c : c.stateAbbreviation = abbrev)

\* C25: when a run has gone through a jurisdiction's venues, it has invoked
\* research exactly once for every venue stored for the jurisdiction when
\* the venue set was loaded, the venues it inserted during the
\* jurisdiction's discovery step included; in a completed run every stored
\* venue of every jurisdiction, so every venue the run created, has been
\* researched once.
C25_EveryVenueResearchedOnce ==
  \A r \in RunIds :
     /\ orch[r].pc = "logCompleted" =>
          /\ orch[r].allCasinos = StoredIn(CurState(r).abbrev)
          /\ ResearchedIn(r, CurState(r).stateName) = NamesOf(orch[r].allCasinos)
     /\ runs[r].status = "completed" =>
          \A x \in 1..Len(States) :
             ResearchedIn(r, States[x].stateName)
               = NamesOf(StoredIn(States[x].abbrev))

\* A completed run that researched a reference venue and a venue it had
\* inserted itself.
C25_Witness ==
  \E r \in RunIds :
     /\ runs[r].status = "completed"
     /\ Len(casinos) >= 2
     /\ ~casinos[1].discovered
     /\ casinos[2].discovered
     /\ Len(SelectSeq(apiCalls[r], LAMBDA c : c.stage = "research")) >= 2

\* The call run r issues in the step, when it issues one.
Issuing(r) == Len(apiCalls'[r]) > Len(apiCalls[r])

LastCall(calls) == calls[Len(calls)]

\* C26: the stages of a run follow one another.  When discover is invoked
\* for a jurisdiction, the run record's currentState names it and, unless it
\* is the first jurisdiction, research has been invoked for every venue of
\* the jurisdiction before and that jurisdiction's completion entry is on
\* the log; when research is invoked for a venue of a jurisdiction, the
\* loop over the candidates is over and every name on the missing list has
\* its venue stored; and no venue is stored for a jurisdiction once research
\* has been invoked for it.
C26_StageOrdering ==
  [][\A r \in RunIds :
       /\ Issuing(r) /\ LastCall(apiCalls'[r]).stage = "discover" =>
            /\ LastCall(apiCalls'[r]).state = CurState(r).stateName
            /\ runs[r].currentState = Some(CurState(r).stateName)
            /\ orch[r].i > 1 =>
                 /\ ResearchedIn(r, States[orch[r].i - 1].stateName)
                      = NamesOf(StoredIn(States[orch[r].i - 1].abbrev))
                 /\ \E x \in 1..Len(runs[r].progressLog) :
                       runs[r].progressLog[x]
                         = Msg("completedState", States[orch[r].i - 1].stateName)
       /\ Issuing(r) /\ LastCall(apiCalls'[r]).stage = "research" =>
            /\ LastCall(apiCalls'[r]).state = CurState(r).stateName
            /\ orch[r].discoveredCasinos.isList
            /\ orch[r].k > Len(orch[r].discoveredCasinos.items)
            /\ \A x \in 1..Len(orch[r].missing) :
                  InsertedFor(orch[r].missing[x], CurState(r).stateName) # <<>>
       /\ casinos' # casinos /\ orch[r].pc = "createCasino" =>
            ResearchedIn(r, CurState(r).stateName) = <<>>
    ]_vars

\* Discovery has been invoked for the second jurisdiction after a venue the
\* run had inserted for the first was researched.
C26_Witness ==
  \E r \in RunIds :
     /\ Len(apiCalls[r]) >= 4
     /\ LastCall(apiCalls[r]).stage = "discover"
     /\ LastCall(apiCalls[r]).state = States[2].stateName
     /\ apiCalls[r][Len(apiCalls[r]) - 1].stage = "research"
     /\ InsertedFor(Get(apiCalls[r][Len(apiCalls[r]) - 1].casino),
                    States[1].stateName) # <<>>

\* The elements of a sequence.
Members(seq) == { seq[x] : x \in 1..Len(seq) }

\* Every comparison entry has new offers, all of them among its discovered
\* offers.
ComparisonsWellFormed(comparisons) ==
  \A x \in 1..Len(comparisons) :
     /\ comparisons[x].newOffers # <<>>
     /\ Members(comparisons[x].newOffers)
          \subseteq Members(comparisons[x].discoveredOffers)

\* Every missing-venues entry names a venue, and no two entries are for one
\* jurisdiction.
MissingWellFormed(missingCasinos) ==
  /\ \A x \in 1..Len(missingCasinos) : missingCasinos[x].casinos # <<>>
  /\ \A x, y \in 1..Len(missingCasinos) :
        missingCasinos[x].state = missingCasinos[y].state => x = y

InsertedByResearch == SelectSeq(offers, LAMBDA o : o.source = "ai-research")

\* The document Offer.create stores for a new offer of the venue run r is at.
DocOfNew(r, o) ==
  OfferDoc(CurCasino(r).name, CurState(r).abbrev, o.offerName, o.offerType,
           Some(OrZero(o.expectedBonus)), "ai-research")

\* C28: the store's offers change only by the insertion of the next new
\* offer of the venue being processed, as an ai-research offer of that
\* venue; when a venue is done, the offers inserted last are its offers
\* classified new, each once and in order, and the run has inserted as many
\* offers as it has classified new in all (so none classified known); the
\* stored offersProcessed never exceeds the number of offers inserted, and
\* in a completed run offersProcessed, the number of offers inserted and
\* summary.totalNewOffers are equal.
C28_NewOffersInsertedOnce ==
  /\ [](\A r \in RunIds :
          /\ runs[r].offersProcessed <= Len(InsertedByResearch)
          /\ orch[r].pc = "setOffersProcessed" =>
               LET new == NewOffers(ReferenceOffersOf(r),
                                    orch[r].discoveredOffers.items)
               IN  /\ Len(InsertedByResearch) = orch[r].totalOffersProcessed
                   /\ Len(InsertedByResearch) = orch[r].totalNewOffers
                   /\ Len(offers) >= Len(new)
                   /\ SubSeq(offers, Len(offers) - Len(new) + 1, Len(offers))
                        = [x \in 1..Len(new) |-> DocOfNew(r, new[x])]
          /\ runs[r].status = "completed" =>
               /\ runs[r].offersProcessed = Len(InsertedByResearch)
               /\ Get(runs[r].summary).totalNewOffers = Len(InsertedByResearch))
  /\ [][\A r \in RunIds :
          offers' # offers =>
            /\ orch[r].pc = "createOffer"
            /\ orch[r].n \in 1..Len(orch[r].newOffers)
            /\ orch[r].newOffers
                 = NewOffers(ReferenceOffersOf(r), orch[r].discoveredOffers.items)
            /\ offers' = Append(offers, DocOfNew(r, orch[r].newOffers[orch[r].n]))
            /\ orch'[r].pc = "createOffer" => orch'[r].n = orch[r].n + 1
       ]_vars

\* A completed run that inserted two offers of a venue and left out a third
\* it had classified known.
C28_Witness ==
  \E r \in RunIds :
     /\ runs[r].status = "completed"
     /\ runs[r].offersProcessed = 2
     /\ Len(InsertedByResearch) = 2
     /\ \E x \in 1..Len(runs[r].offerComparisons) :
           /\ Len(runs[r].offerComparisons[x].newOffers) = 2
           /\ Len(runs[r].offerComparisons[x].discoveredOffers) = 3

\* Run r is past the filter of its current venue's offers.
PastFilter(r) ==
  orch[r].pc \in {"logNewOffers", "createOffer", "setOffersProcessed"}

\* C29: when the venue being processed has no reference offer stored, the
\* filter keeps every offer research returned for it: newOffers is the
\* discovered list, whatever the offers and whatever is stored for other
\* venues.
C29_NoReferenceOffersAllNew ==
  \A r \in RunIds :
     (PastFilter(r) /\ ReferenceOffersOf(r) = <<>>) =>
        orch[r].newOffers = orch[r].discoveredOffers.items

\* A venue without reference offers whose two discovered offers were both
\* classified new, the first of them matching a reference offer stored for
\* another venue of the jurisdiction.
C29_Witness ==
  \E r \in RunIds :
     /\ orch[r].pc = "createOffer"
     /\ ReferenceOffersOf(r) = <<>>
     /\ Len(orch[r].newOffers) >= 2
     /\ \E x \in 1..Len(offers) :
           /\ offers[x].source = "internal-api"
           /\ offers[x].stateAbbreviation = CurState(r).abbrev
           /\ Exists(<< offers[x] >>, orch[r].newOffers[1])

\* A venue of the name is stored for the jurisdiction of the name.
VenueOf(name, stateName) ==
  \E x \in 1..Len(casinos) : /\ casinos[x].name = name
                              /\ casinos[x].state = stateName

\* C30: the progress pointers of every run record a request can read are
\* consistent in every state: a record with a currentCasino has a
\* currentState, and a venue of that name is stored for that jurisdiction;
\* a completed or failed record has neither pointer.
C30_PointersConsistent ==
  \A r \in RerunIds :
     runs[r].status # "none" =>
       /\ IsSome(runs[r].currentCasino) =>
            /\ IsSome(runs[r].currentState)
            /\ VenueOf(Get(runs[r].currentCasino), Get(runs[r].currentState))
       /\ runs[r].status \in Terminal =>
            /\ runs[r].currentState = None
            /\ runs[r].currentCasino = None

\* Both records have been read; one run is at a venue of the first
\* jurisdiction, the other has ended.
C30_Witness ==
  \E a, b \in RerunIds :
     /\ {a, b} \subseteq polled
     /\ runs[a].status = "in-progress"
     /\ runs[a].currentState = Some(States[1].stateName)
     /\ IsSome(runs[a].currentCasino)
     /\ runs[b].status \in Terminal

\* A completion-service call of run r is outstanding: its response is in
\* flight.
Outstanding(r) == orch[r].response # NoResponse

\* How many of the stores a step writes.
StoresWritten ==
  (IF casinos' # casinos THEN 1 ELSE 0)
  + (IF offers' # offers THEN 1 ELSE 0)
  + (IF runs' # runs THEN 1 ELSE 0)

\* C31: a run is sequential.  A call of the run is outstanding exactly while
\* the orchestrator waits for a stage to return; a step issues at most one
\* call, and only when none is outstanding; while a call is outstanding the
\* run performs no store operation and issues no call; and a step performs
\* at most one store operation.
C31_RunIsSequential ==
  /\ [](\A r \in RunIds :
          Outstanding(r) <=> orch[r].pc \in {"discoverRet", "researchRet"})
  /\ [][\A r \in RunIds :
          /\ Issuing(r) =>
               /\ ~Outstanding(r)
               /\ Len(apiCalls'[r]) = Len(apiCalls[r]) + 1
               /\ orch'[r].response # NoResponse
          /\ Outstanding(r) =>
               /\ ~Issuing(r)
               /\ StoresWritten = 0
               /\ orch'[r].response = NoResponse
          /\ StoresWritten <= 1
       ]_vars

\* A research call is outstanding for the second venue of a jurisdiction,
\* the calls before it having returned.
C31_Witness ==
  \E r \in RunIds :
     /\ orch[r].pc = "researchRet"
     /\ orch[r].j = 2
     /\ Len(apiCalls[r]) >= 3

\* Run r is past the loop over the candidates of its current jurisdiction.
PastCandidates(r) ==
  orch[r].pc \in {"logMissing", "findAll", "logResearching", "setCasino",
                  "logProcessing", "research", "researchRet", "logOffers",
                  "findOffers", "logNewOffers", "createOffer",
                  "setOffersProcessed", "logCompleted"}

\* Every candidate of the list has a name.
AllNamed(v) ==
  /\ v.isList
  /\ \A x \in 1..Len(v.items) : IsSome(v.items[x].name)

\* The orchestrator of run r threw on what its last discovery returned.
DiscoveryFaulted(r) ==
  /\ orch[r].error = "TypeError"
  /\ apiCalls[r] # <<>>
  /\ LastCall(apiCalls[r]).stage = "discover"

\* C32: a discovery result that is not a list of named candidates is not
\* taken for an empty one: the orchestrator gets past the candidates of a
\* jurisdiction only when the result is a list and every candidate has a
\* name, and is at a candidate only when that candidate has one; once it has
\* thrown on a discovery result it issues no call and stores no venue and no
\* offer, and when it has settled the run is failed.
C32_MalformedDiscoveryFailsRun ==
  /\ [](\A r \in RunIds :
          /\ PastCandidates(r) => AllNamed(orch[r].discoveredCasinos)
          /\ orch[r].pc \in {"findOne", "createCasino", "logNewCasino"} =>
               /\ orch[r].discoveredCasinos.isList
               /\ orch[r].k <= Len(orch[r].discoveredCasinos.items)
               /\ IsSome(orch[r].discoveredCasinos.items[orch[r].k].name)
          /\ (DiscoveryFaulted(r) /\ Settled(r)) => runs[r].status = "failed")
  /\ [][\A r \in RunIds :
          DiscoveryFaulted(r) =>
            /\ apiCalls' = apiCalls
            /\ casinos' = casinos
            /\ offers' = offers
       ]_vars

\* The same without the outcome of the catch clause: the part of C32 that
\* does not rest on the writes of the catch clause succeeding.
MalformedDiscoveryStopsRun ==
  /\ [](\A r \in RunIds :
          /\ PastCandidates(r) => AllNamed(orch[r].discoveredCasinos)
          /\ (DiscoveryFaulted(r) /\ runs[r].status \in Terminal) =>
               runs[r].status = "failed")
  /\ [][\A r \in RunIds :
          DiscoveryFaulted(r) =>
            /\ apiCalls' = apiCalls
            /\ casinos' = casinos
            /\ offers' = offers
       ]_vars

\* A run failed on a nameless candidate after it had stored the candidate
\* before it, with jurisdictions left.
MalformedDiscoveryReached ==
  \E r \in RunIds :
     /\ DiscoveryFaulted(r)
     /\ runs[r].status = "failed"
     /\ Len(apiCalls[r]) = 1
     /\ \E x \in 1..Len(casinos) : casinos[x].discovered

\* The offer's name is the empty string.
EmptyName(o) == o.offerName = Some(<<>>)

\* C33: when the venue has a reference offer with a name, a discovered offer
\* whose name is the empty string is classified known, whatever the types
\* and the bonuses, and no offer with an empty name is inserted for the
\* venue.
C33_EmptyNameIsKnown ==
  \A r \in RunIds :
     (PastFilter(r)
        /\ \E x \in 1..Len(ReferenceOffersOf(r)) :
              IsSome(ReferenceOffersOf(r)[x].offerName)) =>
       /\ \A y \in 1..Len(orch[r].discoveredOffers.items) :
             EmptyName(orch[r].discoveredOffers.items[y]) =>
               \A z \in 1..Len(orch[r].newOffers) :
                  orch[r].newOffers[z] # orch[r].discoveredOffers.items[y]
       /\ \A x \in 1..Len(offers) :
             (offers[x].source = "ai-research"
                /\ offers[x].casinoName = CurCasino(r).name) =>
               ~EmptyName(offers[x])

\* An offer with an empty name, of another type than the venue's reference
\* offer and with a bonus 60 away, classified known.
C33_Witness ==
  \E r \in RunIds :
     /\ orch[r].pc = "setOffersProcessed"
     /\ ReferenceOffersOf(r) =
          << OfferDoc(NameAb, "NJ", Some(OfferWb), Some(TypeDepositUpper),
                      Some(100), "internal-api") >>
     /\ orch[r].discoveredOffers.items =
          << [offerName |-> Some(<<>>), offerType |-> Some(TypeWelcome),
              expectedBonus |-> Some(160)] >>
     /\ orch[r].newOffers = <<>>

\* The reference offers stored under the item's key.
ReferenceOffersFor(item) ==
  SelectSeq(offers, LAMBDA o : /\ o.source = "internal-api"
                               /\ o.casinoName = item.Name
                               /\ o.stateAbbreviation = item.state.Abbreviation
                               /\ o.offerName = Some(item.Offer_Name))

\* The venues stored under the item's exact name and jurisdiction.
VenuesFor(item) ==
  SelectSeq(casinos, LAMBDA c : /\ c.name = item.Name
                                /\ c.stateAbbreviation = item.state.Abbreviation)

\* C34: when init has run twice on the same upstream data, the store holds
\* exactly one reference offer for the (casino name, state abbreviation,
\* offer name) of every item and exactly one venue for its (exact name,
\* state abbreviation), and it is the store the first init left.
C34_ImportIdempotent ==
  importer.done = Cardinality(ImportIds) =>
    /\ \A x \in 1..Len(importer.data) :
          /\ Len(ReferenceOffersFor(importer.data[x])) = 1
          /\ Len(VenuesFor(importer.data[x])) = 1
    /\ [casinos |-> casinos, offers |-> offers] = Get(importer.afterFirst)

\* The same without the count of the venues: what the second init leaves is
\* what the first left, with one reference offer for every item.
ImportRepeatsFirst ==
  importer.done = Cardinality(ImportIds) =>
    /\ \A x \in 1..Len(importer.data) :
          /\ Len(ReferenceOffersFor(importer.data[x])) = 1
          /\ Len(VenuesFor(importer.data[x])) >= 1
          /\ \E y \in 1..Len(casinos) :
                /\ casinos[y] \in Members(VenuesFor(importer.data[x]))
                /\ ~casinos[y].discovered
    /\ [casinos |-> casinos, offers |-> offers] = Get(importer.afterFirst)

\* Two imports of two items under one key, with different types, are done.
ImportRepeated ==
  /\ importer.done = Cardinality(ImportIds)
  /\ Len(importer.data) = 2
  /\ importer.data[1].Name = importer.data[2].Name
  /\ importer.data[1].Offer_Name = importer.data[2].Offer_Name
  /\ importer.data[1].offer_type # importer.data[2].offer_type

\* C35: the polling loop of the dashboard terminates.  The loading flag is
\* set exactly while handleRunResearch is under way; the loop never makes
\* more than 200 polls; once a poll has shown the run completed or failed
\* the loop is over, with completed set and loading reset; and whenever
\* loading is set it is reset later, whether or not the run reaches a
\* terminal status.
C35_PollingTerminates ==
  /\ [](/\ dash.loading <=> dash.pc \in {"post", "poll"}
        /\ dash.attempts <= MaxAttempts
        /\ dash.pc = "poll" => /\ dash.attempts < MaxAttempts
                               /\ ~dash.completed
                               /\ dash.seen \notin Terminal
        /\ dash.seen \in Terminal => /\ dash.pc = "idle"
                                      /\ dash.completed
                                      /\ ~dash.loading)
  /\ (dash.loading ~> ~dash.loading)

\* The loop has ended after 200 polls of a run still in progress, and the
\* loading flag is reset.
C35_Witness ==
  /\ dash.pc = "idle"
  /\ ~dash.loading
  /\ dash.attempts = MaxAttempts
  /\ ~dash.completed
  /\ dash.seen = "in-progress"
  /\ \E r \in RunIds : runs[r].status = "in-progress"

\* The loop has ended at a poll that showed the run failed, before the
\* 200th.
PollSawFailure ==
  /\ dash.pc = "idle"
  /\ dash.completed
  /\ dash.seen = "failed"
  /\ dash.attempts < MaxAttempts

====
